---- MODULE Spec2Model ----
(***************************************************************************)
(* Load and route optimisation core of the delivery planner:               *)
(*   - the multi-trip fleet planner runOptimizationV3 and its helpers      *)
(*     (server/routers/globalOptimize, V3),                                *)
(*   - the route and the load plan autoOptimize derives for every trip     *)
(*     (getOptimizedRoute, generateLoadPlan),                              *)
(*   - the free-space packer packItems (server/routers/optimize.ts).       *)
(* Lengths are centimetres, weights kilograms, times minutes; all inputs   *)
(* are integers.  A centre of gravity is an exact fraction num/den.        *)
(***************************************************************************)
EXTENDS Integers, Sequences, FiniteSets, TLC

VARIABLES
  pc,               \* position of the run: which step executes next
  ordersData,       \* runOptimizationV3 input: OrderData[], index = order id
  trucksData,       \* runOptimizationV3 input: TruckData[], index = truck id
  trucksWithTrips,  \* TruckWithTrips[], sorted by descending truck volume
  unassignedOrders, \* order ids
  zoneTruckMap,     \* zone -> positions in trucksWithTrips
  zoneQueue,        \* step 3: order ids still to pack, zone by zone
  remainingOrders,  \* step 4: order ids still to pack
  summary,          \* summary / parallelDeployment of the returned result
  assignments,      \* autoOptimize output: per truck, its trips with route and load plan
  items,            \* packItems input: Item[]
  bin,              \* packItems input: Bin
  sortedItems,      \* packItems: items not yet processed
  packedItems,      \* packItems: PackedItem[]
  unpackedItems,    \* packItems: Item[]
  spaces,           \* packItems: free boxes
  totalWeight,      \* packItems: running packed weight
  totalVolume,      \* packItems: running packed volume
  packResult,       \* packItems: OptimizationResult
  truckStatus,      \* trucks table: truck id -> status
  deliveryRuns,     \* delivery_runs table with the stops of each run, index = run id
  planned,          \* the assignments of the last autoOptimize result, one per trip
  ordersWithItems,  \* assignOrdersToTrucks input: OrderData[]
  truckData,        \* assignOrdersToTrucks input: TruckData[]
  availableHelpers, \* assignOrdersToTrucks input: helpers on duty
  availableTrucks,  \* assignOrdersToTrucks: trucks not yet in an assignment
  zoneOrderQueue,   \* assignOrdersToTrucks: orders still to process, zone by zone
  remainingHelpers, \* assignOrdersToTrucks: helpers not yet given out
  truckAssignments  \* assignOrdersToTrucks: TruckAssignment[]

v3vars == <<ordersData, trucksData, trucksWithTrips, unassignedOrders,
            zoneTruckMap, zoneQueue, remainingOrders, summary, assignments>>
packVars == <<items, bin, sortedItems, packedItems, unpackedItems, spaces,
              totalWeight, totalVolume, packResult>>

runVars == <<truckStatus, deliveryRuns, planned>>
assignVars == <<ordersWithItems, truckData, availableHelpers, availableTrucks,
                zoneOrderQueue, remainingHelpers, truckAssignments>>
vars == <<pc, v3vars, packVars, runVars, assignVars>>

(***************************************************************************)
(* Bounds of the model.                                                    *)
(***************************************************************************)
MaxOrders == 3
MaxItems == 3

(***************************************************************************)
(* Generic helpers.                                                        *)
(***************************************************************************)
Range(s) == {s[i] : i \in DOMAIN s}

Front(s) == SubSeq(s, 1, Len(s) - 1)

Last(s) == s[Len(s)]

Max(a, b) == IF a > b THEN a ELSE b

Abs(a) == IF a < 0 THEN -a ELSE a

RECURSIVE SumSeq(_)
SumSeq(s) == IF s = <<>> THEN 0 ELSE Head(s) + SumSeq(Tail(s))

\* Array.prototype.sort with comparator (a, b) => k[a] - k[b]: stable, ascending.
RECURSIVE InsertByKey(_, _, _)
InsertByKey(x, s, k) ==
  IF s = <<>> THEN <<x>>
  ELSE IF k[x] < k[Head(s)] THEN <<x>> \o s
  ELSE <<Head(s)>> \o InsertByKey(x, Tail(s), k)

RECURSIVE SortAscBy(_, _)
SortAscBy(s, k) ==
  IF s = <<>> THEN <<>> ELSE InsertByKey(Last(s), SortAscBy(Front(s), k), k)

\* Array.prototype.sort with comparator (a, b) => k[b] - k[a]: stable, descending.
SortDescBy(s, k) == SortAscBy(s, [x \in DOMAIN k |-> -k[x]])

\* Math.round(n / d) for n >= 0, d > 0.
RoundDiv(n, d) == (n + d \div 2) \div d

(***************************************************************************)
(* Zone and travel model.                                                  *)
(***************************************************************************)
Zones == {"North", "South", "East", "West", "Central"}

ZONE_TRAVEL_TIMES ==
  [z \in Zones |-> CASE z = "West" -> 15
                     [] z = "Central" -> 30
                     [] z = "South" -> 35
                     [] z = "East" -> 45
                     [] z = "North" -> 40]

\* The keys are "A-B" with A before B in string order.
INTER_ZONE_TIMES ==
  (<<"Central", "East">> :> 25) @@ (<<"Central", "North">> :> 20) @@
  (<<"Central", "South">> :> 15) @@ (<<"Central", "West">> :> 20) @@
  (<<"East", "North">> :> 25) @@ (<<"East", "South">> :> 30) @@
  (<<"East", "West">> :> 40) @@ (<<"North", "South">> :> 35) @@
  (<<"North", "West">> :> 35) @@ (<<"South", "West">> :> 25)

DEPOT_RELOAD_TIME == 30

\* String order of the zone names, as [zone1, zone2].sort() uses it.
ZoneRank ==
  [z \in Zones |-> CASE z = "Central" -> 1
                     [] z = "East" -> 2
                     [] z = "North" -> 3
                     [] z = "South" -> 4
                     [] z = "West" -> 5]

DepotTime(z) == IF z \in DOMAIN ZONE_TRAVEL_TIMES THEN ZONE_TRAVEL_TIMES[z] ELSE 30

getInterZoneTime(zone1, zone2) ==
  IF zone1 = zone2 THEN 5
  ELSE LET key == IF ZoneRank[zone1] < ZoneRank[zone2]
                  THEN <<zone1, zone2>> ELSE <<zone2, zone1>>
       IN IF key \in DOMAIN INTER_ZONE_TIMES THEN INTER_ZONE_TIMES[key] ELSE 30

(***************************************************************************)
(* Inputs of a run: the order and truck records autoOptimize builds from   *)
(* the stored rows.  A stored dimension or weight of 0 stands for a        *)
(* missing value.                                                          *)
(***************************************************************************)
Sku(l, w, h, kg) == [length |-> l, width |-> w, height |-> h, weight |-> kg]

Line(sku, q) == [sku |-> sku, quantity |-> q]

\* Stored order lines the inputs are drawn from: a small item with no stored
\* dimensions, two half-truck pallets, a long heavy beam.
OrderShapes ==
  { <<Line(Sku(0, 0, 0, 0), 1)>>,
    <<Line(Sku(60, 60, 30, 30), 2)>>,
    <<Line(Sku(90, 30, 30, 45), 1)>> }

\* Delivery places (zone and postal sector) the inputs are drawn from.
Places ==
  { [zone |-> "West", sector |-> "22", helpersRequired |-> "none"],
    [zone |-> "Central", sector |-> "01", helpersRequired |-> "none"],
    [zone |-> "North", sector |-> "53", helpersRequired |-> "none"] }

TruckRow(w, d, h, kg) == [width |-> w, depth |-> d, height |-> h, maxWeight |-> kg]

LargeTruck == TruckRow(60, 90, 60, 100)

SmallTruck == TruckRow(60, 60, 60, 60)

\* Fleets of available trucks the inputs are drawn from.
Fleets ==
  { <<SmallTruck>>, <<SmallTruck, LargeTruck>>, <<SmallTruck, SmallTruck>> }

DimOr30(v) == IF v = 0 THEN 30 ELSE v

WeightOr5(v) == IF v = 0 THEN 5 ELSE v

RECURSIVE MaxSeq(_)
MaxSeq(s) == IF Len(s) = 1 THEN s[1] ELSE Max(Head(s), MaxSeq(Tail(s)))

\* ItemData[] of one order.
ItemsOf(id, lines) ==
  [i \in DOMAIN lines |->
    [id |-> id * 10 + i, orderId |-> id, quantity |-> lines[i].quantity,
     length |-> DimOr30(lines[i].sku.length),
     width |-> DimOr30(lines[i].sku.width),
     height |-> DimOr30(lines[i].sku.height),
     weight |-> WeightOr5(lines[i].sku.weight)]]

\* OrderData of one pending order.
BuildOrder(id, place, lines) ==
  LET its == ItemsOf(id, lines)
      tw == SumSeq([i \in DOMAIN lines |->
                     WeightOr5(lines[i].sku.weight) * lines[i].quantity])
      tv == SumSeq([i \in DOMAIN lines |->
                     DimOr30(lines[i].sku.length) * DimOr30(lines[i].sku.width)
                       * DimOr30(lines[i].sku.height) * lines[i].quantity])
  IN [id |-> id, zone |-> place.zone, sector |-> place.sector,
      helpersRequired |-> place.helpersRequired,
      totalWeight |-> tw, totalVolume |-> tv,
      maxLength |-> MaxSeq([i \in DOMAIN lines |-> DimOr30(lines[i].sku.length)]),
      maxWidth |-> MaxSeq([i \in DOMAIN lines |-> DimOr30(lines[i].sku.width)]),
      maxHeight |-> MaxSeq([i \in DOMAIN lines |-> DimOr30(lines[i].sku.height)]),
      needsTwoPeople |-> (tw > 50),
      items |-> its]

\* TruckData of one available truck.
BuildTruck(id, row) ==
  [id |-> id, width |-> row.width, depth |-> row.depth, height |-> row.height,
   maxWeight |-> row.maxWeight, volume |-> row.width * row.depth * row.height]

\* Stored pending orders the inputs are drawn from: a place and the lines
\* (every place with every shape, but no beam in West and no small item in
\* Central).
OrderRows ==
  {r \in Places \X OrderShapes :
     ~(\/ (r[1].zone = "West" /\ r[2][1].sku.length = 90)
       \/ (r[1].zone = "Central" /\ r[2][1].sku.length = 0))}

OrderInputs(n) ==
  { [i \in 1..n |-> BuildOrder(i, c[i][1], c[i][2])] :
    c \in [1..n -> OrderRows] }

TruckInputs ==
  { [i \in DOMAIN f |-> BuildTruck(i, f[i])] : f \in Fleets }

(***************************************************************************)
(* Trip helper functions.                                                  *)
(***************************************************************************)
EmptyTrip(tripId, truck) ==
  [tripId |-> tripId, truckId |-> truck.id, maxVolume |-> truck.volume,
   maxWeight |-> truck.maxWeight,
   truckDims |-> <<truck.width, truck.depth, truck.height>>,
   loadedOrders |-> <<>>, currentVolume |-> 0, currentWeight |-> 0,
   assignedZones |-> <<>>]

\* [...].sort((a, b) => b - a) of three numbers.
SortDesc3(t) == SortDescBy(<<1, 2, 3>>, [i \in 1..3 |-> t[i]])

\* Mutant: the weight test is missing.
canFitInTrip_NoWeightTest(trip, order) ==
  IF trip.currentVolume + order.totalVolume > trip.maxVolume THEN FALSE
  ELSE LET td == trip.truckDims
           od == <<order.maxLength, order.maxWidth, order.maxHeight>>
           dims == [i \in 1..3 |-> td[SortDesc3(td)[i]]]
           orderDims == [i \in 1..3 |-> od[SortDesc3(od)[i]]]
       IN \A i \in 1..3 : ~(orderDims[i] > dims[i])

canFitInTrip(trip, order) ==
  IF trip.currentVolume + order.totalVolume > trip.maxVolume THEN FALSE
  ELSE IF trip.currentWeight + order.totalWeight > trip.maxWeight THEN FALSE
  ELSE LET td == trip.truckDims
           od == <<order.maxLength, order.maxWidth, order.maxHeight>>
           dims == [i \in 1..3 |-> td[SortDesc3(td)[i]]]
           orderDims == [i \in 1..3 |-> od[SortDesc3(od)[i]]]
       IN \A i \in 1..3 : ~(orderDims[i] > dims[i])

\* Mutant: only the zone of the first order loaded is recorded.
loadOrderIntoTrip_FirstZoneOnly(trip, order) ==
  [trip EXCEPT
    !.loadedOrders = Append(@, order.id),
    !.currentVolume = @ + order.totalVolume,
    !.currentWeight = @ + order.totalWeight,
    !.assignedZones = IF @ = <<>> THEN <<order.zone>> ELSE @]

loadOrderIntoTrip(trip, order) ==
  [trip EXCEPT
    !.loadedOrders = Append(@, order.id),
    !.currentVolume = @ + order.totalVolume,
    !.currentWeight = @ + order.totalWeight,
    !.assignedZones = IF order.zone \in Range(@) THEN @ ELSE Append(@, order.zone)]

\* Array.from(new Set(zones)): first occurrences, in order.
RECURSIVE Unique(_)
Unique(s) ==
  IF s = <<>> THEN <<>>
  ELSE LET u == Unique(Front(s))
       IN IF Last(s) \in Range(u) THEN u ELSE Append(u, Last(s))

optimizeZoneOrder(zones) ==
  LET uniqueZones == Unique(zones)
  IN IF Len(uniqueZones) <= 1 THEN uniqueZones
     ELSE SortAscBy(uniqueZones, [z \in Range(uniqueZones) |-> DepotTime(z)])

\* Mutant: every stop takes the average time.
StopTime_Average(order) == 10

\* Per-stop delivery time of one loaded order.
StopTime(order) == IF order.needsTwoPeople THEN 15 ELSE 10

\* Mutant: the loop over the zones stops one hop early.
getTripRouteTime_HopShort(trip, includeReturn, orders) ==
  IF Len(trip.loadedOrders) = 0 THEN 0
  ELSE LET zones == optimizeZoneOrder(trip.assignedZones)
       IN IF Len(zones) = 0 THEN 0
          ELSE DepotTime(zones[1])
               + SumSeq([i \in 1..(Len(zones) - 2) |->
                          getInterZoneTime(zones[i], zones[i + 1])])
               + SumSeq([i \in DOMAIN trip.loadedOrders |->
                          StopTime(orders[trip.loadedOrders[i]])])
               + (IF includeReturn THEN DepotTime(zones[Len(zones)]) ELSE 0)

getTripRouteTime(trip, includeReturn, orders) ==
  IF Len(trip.loadedOrders) = 0 THEN 0
  ELSE LET zones == optimizeZoneOrder(trip.assignedZones)
       IN IF Len(zones) = 0 THEN 0
          ELSE DepotTime(zones[1])
               + SumSeq([i \in 1..(Len(zones) - 1) |->
                          getInterZoneTime(zones[i], zones[i + 1])])
               + SumSeq([i \in DOMAIN trip.loadedOrders |->
                          StopTime(orders[trip.loadedOrders[i]])])
               + (IF includeReturn THEN DepotTime(zones[Len(zones)]) ELSE 0)

\* Mutant: a reload interval follows every trip, the last one too.
getTruckTotalRouteTime_ReloadAfterLast(trips, orders) ==
  IF Len(trips) = 0 THEN 0
  ELSE SumSeq([i \in DOMAIN trips |->
                getTripRouteTime(trips[i], TRUE, orders) + DEPOT_RELOAD_TIME])

getTruckTotalRouteTime(trips, orders) ==
  IF Len(trips) = 0 THEN 0
  ELSE SumSeq([i \in DOMAIN trips |->
                getTripRouteTime(trips[i], TRUE, orders)
                + (IF i < Len(trips) THEN DEPOT_RELOAD_TIME ELSE 0)])

(***************************************************************************)
(* runOptimizationV3, steps 1 and 2: grouping, demands, trucks per zone.   *)
(***************************************************************************)
OrderIds(orders) == [i \in DOMAIN orders |-> i]

\* Keys of zoneOrders in insertion order.
ZoneKeys(orders) == Unique([i \in DOMAIN orders |-> orders[i].zone])

\* zoneOrders[zone] after the per-zone sort by descending volume.
ZoneOrdersOf(orders, zone) ==
  SortDescBy(SelectSeq(OrderIds(orders), LAMBDA i : orders[i].zone = zone),
             [i \in DOMAIN orders |-> orders[i].totalVolume])

\* zoneDemands[zone].volume
ZoneDemandVolume(orders, zone) ==
  LET ids == ZoneOrdersOf(orders, zone)
  IN SumSeq([k \in DOMAIN ids |-> orders[ids[k]].totalVolume])

SortedZones(orders) ==
  SortDescBy(ZoneKeys(orders),
             [z \in Range(ZoneKeys(orders)) |-> ZoneDemandVolume(orders, z)])

InitialTrucksWithTrips(trucks) ==
  LET byVolume == SortDescBy([i \in DOMAIN trucks |-> i],
                             [i \in DOMAIN trucks |-> trucks[i].volume])
  IN [k \in DOMAIN byVolume |->
       [truck |-> trucks[byVolume[k]],
        trips |-> <<EmptyTrip(1, trucks[byVolume[k]])>>,
        totalOrders |-> 0, totalVolumeUsed |-> 0, totalWeightUsed |-> 0,
        totalRouteTime |-> 0]]

\* The inner loop over trucks for one zone: take unused trucks until the
\* assigned volume covers the needed volume.
RECURSIVE TakeTrucks(_, _, _, _, _, _)
TakeTrucks(tw, k, used, assignedVolume, neededVolume, taken) ==
  IF k > Len(tw) THEN [used |-> used, taken |-> taken]
  ELSE IF tw[k].truck.id \in used
       THEN TakeTrucks(tw, k + 1, used, assignedVolume, neededVolume, taken)
  ELSE IF assignedVolume >= neededVolume THEN [used |-> used, taken |-> taken]
  ELSE TakeTrucks(tw, k + 1, used \cup {tw[k].truck.id},
                  assignedVolume + tw[k].truck.volume, neededVolume,
                  Append(taken, k))

\* The loop over sortedZones that fills zoneTruckMap.
RECURSIVE AssignTrucksToZones(_, _, _, _, _)
AssignTrucksToZones(tw, orders, zones, used, map) ==
  IF zones = <<>> THEN [used |-> used, map |-> map]
  ELSE LET r == TakeTrucks(tw, 1, used, 0, ZoneDemandVolume(orders, Head(zones)), <<>>)
       IN AssignTrucksToZones(tw, orders, Tail(zones), r.used,
                              [map EXCEPT ![Head(zones)] = r.taken])

\* zoneTruckMap after the remaining trucks went to the highest demand zone.
ZoneTruckMapOf(tw, orders) ==
  LET zs == SortedZones(orders)
      r == AssignTrucksToZones(tw, orders, zs, {}, [z \in Zones |-> <<>>])
      bestZone == IF zs # <<>> THEN zs[1] ELSE "Central"
      rest == SelectSeq([k \in DOMAIN tw |-> k], LAMBDA k : tw[k].truck.id \notin r.used)
  IN [r.map EXCEPT ![bestZone] = @ \o rest]

RECURSIVE Concat(_)
Concat(ss) == IF ss = <<>> THEN <<>> ELSE Head(ss) \o Concat(Tail(ss))

\* The orders in the order step 3 visits them: zone by zone.
Step3Queue(orders) ==
  LET zs == SortedZones(orders)
  IN Concat([k \in DOMAIN zs |-> ZoneOrdersOf(orders, zs[k])])

Prepare ==
  /\ pc = "start"
  /\ trucksWithTrips' = InitialTrucksWithTrips(trucksData)
  /\ zoneTruckMap' = ZoneTruckMapOf(trucksWithTrips', ordersData)
  /\ zoneQueue' = Step3Queue(ordersData)
  /\ unassignedOrders' = <<>>
  /\ pc' = "step3"
  /\ UNCHANGED <<ordersData, trucksData, remainingOrders, summary, assignments,
                 packVars, runVars, assignVars>>

(***************************************************************************)
(* runOptimizationV3, step 3: Best-Fit Decreasing, one order per step.     *)
(***************************************************************************)
CurrentTrip(t) == t.trips[Len(t.trips)]

LoadIntoCurrentTrip(tw, k, order) ==
  [tw EXCEPT ![k].trips[Len(tw[k].trips)] = loadOrderIntoTrip(@, order)]

\* The best-fit scan over the zone's trucks: 0 when no truck fits.
RECURSIVE BestTruck(_, _, _, _, _)
BestTruck(tw, order, cands, best, bestRemaining) ==
  IF cands = <<>> THEN best
  ELSE LET k == Head(cands)
           currentTrip == CurrentTrip(tw[k])
           remaining == currentTrip.maxVolume - currentTrip.currentVolume
                          - order.totalVolume
       IN IF canFitInTrip(currentTrip, order)
             /\ (best = 0 \/ remaining < bestRemaining)
          THEN BestTruck(tw, order, Tail(cands), k, remaining)
          ELSE BestTruck(tw, order, Tail(cands), best, bestRemaining)

\* The "try any truck" scan: the first truck whose current trip fits, or 0.
FirstFit(tw, order) ==
  LET fits == SelectSeq([k \in DOMAIN tw |-> k],
                        LAMBDA k : canFitInTrip(CurrentTrip(tw[k]), order))
  IN IF fits = <<>> THEN 0 ELSE fits[1]

\* Where step 3 loads the order: a position in trucksWithTrips, or 0.
Step3Target(tw, map, order) ==
  LET bestTruck == BestTruck(tw, order, map[order.zone], 0, 0)
  IN IF bestTruck # 0 THEN bestTruck ELSE FirstFit(tw, order)

Step3Order ==
  /\ pc = "step3"
  /\ zoneQueue # <<>>
  /\ LET order == ordersData[Head(zoneQueue)]
         k == Step3Target(trucksWithTrips, zoneTruckMap, order)
     IN IF k # 0
        THEN /\ trucksWithTrips' = LoadIntoCurrentTrip(trucksWithTrips, k, order)
             /\ UNCHANGED unassignedOrders
        ELSE /\ unassignedOrders' = Append(unassignedOrders, order.id)
             /\ UNCHANGED trucksWithTrips
  /\ zoneQueue' = Tail(zoneQueue)
  /\ UNCHANGED <<pc, ordersData, trucksData, zoneTruckMap, remainingOrders,
                 summary, assignments, packVars, runVars, assignVars>>

(***************************************************************************)
(* runOptimizationV3, step 4: remaining orders, with new trips.            *)
(***************************************************************************)
\* Mutant: unassignedOrders is not emptied before step 4 refills it.
Step4Begin_KeepUnassigned ==
  /\ pc = "step3"
  /\ zoneQueue = <<>>
  /\ remainingOrders' =
       SortDescBy(unassignedOrders,
                  [i \in DOMAIN ordersData |-> ordersData[i].totalVolume])
  /\ pc' = "step4"
  /\ UNCHANGED <<ordersData, trucksData, trucksWithTrips, unassignedOrders,
                 zoneTruckMap, zoneQueue, summary,
                 assignments, packVars, runVars, assignVars>>

Step4Begin ==
  /\ pc = "step3"
  /\ zoneQueue = <<>>
  /\ remainingOrders' =
       SortDescBy(unassignedOrders,
                  [i \in DOMAIN ordersData |-> ordersData[i].totalVolume])
  /\ unassignedOrders' = <<>>
  /\ pc' = "step4"
  /\ UNCHANGED <<ordersData, trucksData, trucksWithTrips, zoneTruckMap,
                 zoneQueue, summary, assignments, packVars, runVars, assignVars>>

\* Mutant: no new trip is opened, only the current trips are tried.
RECURSIVE Step4Try_NoNewTrip(_, _, _)
Step4Try_NoNewTrip(tw, order, cands) ==
  IF cands = <<>> THEN [tw |-> tw, packed |-> FALSE]
  ELSE LET k == Head(cands)
       IN IF canFitInTrip(CurrentTrip(tw[k]), order)
          THEN [tw |-> LoadIntoCurrentTrip(tw, k, order), packed |-> TRUE]
          ELSE Step4Try_NoNewTrip(tw, order, Tail(cands))

\* The loop over sortedTrucks for one order: a truck whose current trip does
\* not fit gets a new trip, and the order is loaded if that one fits.
RECURSIVE Step4Try(_, _, _)
Step4Try(tw, order, cands) ==
  IF cands = <<>> THEN [tw |-> tw, packed |-> FALSE]
  ELSE LET k == Head(cands)
           tw1 == IF ~canFitInTrip(CurrentTrip(tw[k]), order)
                  THEN [tw EXCEPT ![k].trips =
                          Append(@, EmptyTrip(Len(@) + 1, tw[k].truck))]
                  ELSE tw
       IN IF canFitInTrip(CurrentTrip(tw1[k]), order)
          THEN [tw |-> LoadIntoCurrentTrip(tw1, k, order), packed |-> TRUE]
          ELSE Step4Try(tw1, order, Tail(cands))

\* [...trucksWithTrips].sort by descending volume, as positions.
SortedTrucks(tw) ==
  SortDescBy([k \in DOMAIN tw |-> k], [k \in DOMAIN tw |-> tw[k].truck.volume])

Step4Order ==
  /\ pc = "step4"
  /\ remainingOrders # <<>>
  /\ LET order == ordersData[Head(remainingOrders)]
         r == Step4Try(trucksWithTrips, order, SortedTrucks(trucksWithTrips))
     IN /\ trucksWithTrips' = r.tw
        /\ unassignedOrders' =
             IF r.packed THEN unassignedOrders
             ELSE Append(unassignedOrders, order.id)
  /\ remainingOrders' = Tail(remainingOrders)
  /\ UNCHANGED <<pc, ordersData, trucksData, zoneTruckMap, zoneQueue, summary,
                 assignments, packVars, runVars, assignVars>>

(***************************************************************************)
(* runOptimizationV3: totals per truck and the summary of the result.      *)
(***************************************************************************)
WithTotals(tw, orders) ==
  [k \in DOMAIN tw |->
    [tw[k] EXCEPT
      !.totalOrders = SumSeq([j \in DOMAIN tw[k].trips |->
                               Len(tw[k].trips[j].loadedOrders)]),
      !.totalVolumeUsed = SumSeq([j \in DOMAIN tw[k].trips |->
                                   tw[k].trips[j].currentVolume]),
      !.totalWeightUsed = SumSeq([j \in DOMAIN tw[k].trips |->
                                   tw[k].trips[j].currentWeight]),
      !.totalRouteTime = getTruckTotalRouteTime(tw[k].trips, orders)]]

\* Math.max(...truckTotalTimes, 0)
MaxTruckTime(tw) ==
  IF tw = <<>> THEN 0
  ELSE Max(MaxSeq([k \in DOMAIN tw |-> tw[k].totalRouteTime]), 0)

\* The reduce that finds the bottleneck truck: a position, 0 for no truck.
RECURSIVE Bottleneck_Min(_, _, _)
Bottleneck_Min(tw, k, max) ==
  IF k > Len(tw) THEN max
  ELSE IF tw[k].totalRouteTime < tw[max].totalRouteTime
       THEN Bottleneck_Min(tw, k + 1, k)
       ELSE Bottleneck_Min(tw, k + 1, max)

RECURSIVE Bottleneck(_, _, _)
Bottleneck(tw, k, max) ==
  IF k > Len(tw) THEN max
  ELSE IF tw[k].totalRouteTime > tw[max].totalRouteTime
       THEN Bottleneck(tw, k + 1, k)
       ELSE Bottleneck(tw, k + 1, max)

\* summary and parallelDeployment; the percentages are kept in tenths.
SummaryOf(tw, orders, trucks, unassigned) ==
  LET totalAssigned == SumSeq([k \in DOMAIN tw |-> tw[k].totalOrders])
      maxTruckTime == MaxTruckTime(tw)
      totalFleetVolume == SumSeq([i \in DOMAIN trucks |-> trucks[i].volume])
      totalVolumeUsed == SumSeq([k \in DOMAIN tw |-> tw[k].totalVolumeUsed])
      bottleneck == IF tw = <<>> THEN 0 ELSE Bottleneck(tw, 1, 1)
  IN [totalOrders |-> Len(orders),
      assignedOrders |-> totalAssigned,
      unassignedOrders |-> Len(unassigned),
      assignmentRate10 |-> RoundDiv(totalAssigned * 1000, Len(orders)),
      totalTrips |-> SumSeq([k \in DOMAIN tw |-> Len(tw[k].trips)]),
      totalElapsedTimeMin |-> maxTruckTime,
      parallelTotalElapsedTimeMin |-> maxTruckTime,
      fleetVolumeUtilization10 |->
        IF totalFleetVolume > 0
        THEN RoundDiv(totalVolumeUsed * 1000, totalFleetVolume) ELSE 0,
      depotReloadTimePerTripMin |-> DEPOT_RELOAD_TIME,
      bottleneckTruck |-> IF bottleneck = 0 THEN 0 ELSE tw[bottleneck].truck.id]

NoSummary == [success |-> FALSE]

Totals ==
  /\ pc = "step4"
  /\ remainingOrders = <<>>
  /\ trucksWithTrips' = WithTotals(trucksWithTrips, ordersData)
  /\ summary' = SummaryOf(trucksWithTrips', ordersData, trucksData, unassignedOrders)
                  @@ NoSummary
  /\ pc' = "totals"
  /\ UNCHANGED <<ordersData, trucksData, unassignedOrders, zoneTruckMap,
                 zoneQueue, remainingOrders, assignments, packVars, runVars, assignVars>>

(***************************************************************************)
(* autoOptimize: the route and the load plan of every trip.                *)
(***************************************************************************)
\* a.localeCompare(b) on two-character postal sectors orders them as the
\* numbers they spell.
SectorRank ==
  ("01" :> 1) @@ ("09" :> 9) @@ ("22" :> 22) @@ ("38" :> 38) @@ ("46" :> 46) @@
  ("53" :> 53) @@ ("60" :> 60) @@ ("64" :> 64) @@ ("73" :> 73)

\* Mutant: the orders of a zone keep their loading order.
getOptimizedRoute_NoSectorSort(trip, orders) ==
  IF Len(trip.loadedOrders) = 0 THEN <<>>
  ELSE LET zoneOrders(z) == SelectSeq(trip.loadedOrders, LAMBDA o : orders[o].zone = z)
           zoneSequence == optimizeZoneOrder(trip.assignedZones)
           stops == Concat([i \in DOMAIN zoneSequence |-> zoneOrders(zoneSequence[i])])
       IN [n \in DOMAIN stops |->
            [orderId |-> stops[n], sequence |-> n, zone |-> orders[stops[n]].zone,
             sector |-> orders[stops[n]].sector,
             needsTwoPeople |-> orders[stops[n]].needsTwoPeople]]

\* RouteStop[] of one trip: zones by depot time, orders of a zone by sector.
getOptimizedRoute(trip, orders) ==
  IF Len(trip.loadedOrders) = 0 THEN <<>>
  ELSE LET zoneOrders(z) == SelectSeq(trip.loadedOrders, LAMBDA o : orders[o].zone = z)
           zoneSequence == optimizeZoneOrder(trip.assignedZones)
           sorted(z) == SortAscBy(zoneOrders(z),
                                  [o \in Range(zoneOrders(z)) |->
                                    SectorRank[orders[o].sector]])
           stops == Concat([i \in DOMAIN zoneSequence |-> sorted(zoneSequence[i])])
       IN [n \in DOMAIN stops |->
            [orderId |-> stops[n], sequence |-> n, zone |-> orders[stops[n]].zone,
             sector |-> orders[stops[n]].sector,
             needsTwoPeople |-> orders[stops[n]].needsTwoPeople]]

\* route.find(r => r.orderId === order.id)?.sequence || 999
SequenceOf(route, orderId) ==
  IF \E n \in DOMAIN route : route[n].orderId = orderId
  THEN route[CHOOSE n \in DOMAIN route :
               /\ route[n].orderId = orderId
               /\ \A m \in 1..(n - 1) : route[m].orderId # orderId].sequence
  ELSE 999

\* The units of one order: every item once per unit of its quantity.
UnitsOf(order, sequence) ==
  Concat([i \in DOMAIN order.items |->
           [q \in 1..order.items[i].quantity |->
             [id |-> order.items[i].id, orderId |-> order.id,
              sequence |-> sequence,
              length |-> order.items[i].length, width |-> order.items[i].width,
              height |-> order.items[i].height, weight |-> order.items[i].weight]]])

\* Mutant: the units keep the loading order of their orders.
AllItems_Unsorted(trip, route, orders) ==
  Concat([j \in DOMAIN trip.loadedOrders |->
           UnitsOf(orders[trip.loadedOrders[j]],
                   SequenceOf(route, trip.loadedOrders[j]))])

\* allItems after the sort by descending stop sequence.
AllItems(trip, route, orders) ==
  LET all == Concat([j \in DOMAIN trip.loadedOrders |->
                      UnitsOf(orders[trip.loadedOrders[j]],
                              SequenceOf(route, trip.loadedOrders[j]))])
  IN SortDescBy(all, [u \in Range(all) |-> u.sequence])

Min(a, b) == IF a < b THEN a ELSE b

\* The three sections, back first.  Depths are kept in thirds of a
\* centimetre (startY3 = 3 * startY), since sectionDepth = truck.depth / 3
\* need not be whole.
SectionsOf(allItems, truck) ==
  LET n == Len(allItems)
      itemsPerSection == (n + 2) \div 3
  IN << [name |-> "back", startY3 |-> 0, endY3 |-> truck.depth,
         items |-> SubSeq(allItems, 1, Min(itemsPerSection, n))],
        [name |-> "middle", startY3 |-> truck.depth, endY3 |-> 2 * truck.depth,
         items |-> SubSeq(allItems, itemsPerSection + 1,
                          Min(2 * itemsPerSection, n))],
        [name |-> "front", startY3 |-> 2 * truck.depth, endY3 |-> 3 * truck.depth,
         items |-> SubSeq(allItems, 2 * itemsPerSection + 1, n)] >>

\* The cursor of the shelf packer at the start of a section.
SectionStart(section) ==
  [x |-> 0, y3 |-> section.startY3, z |-> 0, layerHeight |-> 0, rowWidth |-> 0]

\* The row advance and the layer advance the packer makes for one unit.
Advance(cur, item, section, truck) ==
  LET row == IF cur.x + DimOr30(item.length) > truck.width
             THEN [cur EXCEPT !.x = 0, !.y3 = @ + 3 * cur.rowWidth, !.rowWidth = 0]
             ELSE cur
  IN IF row.y3 + 3 * DimOr30(item.width) > section.endY3
     THEN [row EXCEPT !.x = 0, !.y3 = section.startY3, !.z = @ + row.layerHeight,
                      !.layerHeight = 0, !.rowWidth = 0]
     ELSE row

LoadPlanItem(item, cur, section) ==
  [orderItemId |-> item.id, orderId |-> item.orderId,
   x |-> cur.x, y3 |-> cur.y3, z |-> cur.z,
   rotatedLength |-> DimOr30(item.length), rotatedWidth |-> DimOr30(item.width),
   height |-> DimOr30(item.height), weight |-> WeightOr5(item.weight),
   rotation |-> 0, placement |-> section.name]

\* Mutant: the loop over a section ends at the first unit that is too high.
RECURSIVE PackSection_StopAtSkip(_, _, _, _, _)
PackSection_StopAtSkip(units, section, truck, cur, out) ==
  IF units = <<>> THEN out
  ELSE LET item == Head(units)
           at == Advance(cur, item, section, truck)
       IN IF at.z + DimOr30(item.height) > truck.height
          THEN [out EXCEPT !.skipped =
                 Append(@, [item |-> item, z |-> at.z, placement |-> section.name])]
          ELSE PackSection_StopAtSkip(Tail(units), section, truck,
                 [at EXCEPT !.x = @ + DimOr30(item.length),
                            !.layerHeight = Max(@, DimOr30(item.height)),
                            !.rowWidth = Max(@, DimOr30(item.width))],
                 [out EXCEPT !.loadPlan = Append(@, LoadPlanItem(item, at, section))])

\* The loop over the units of one section.  out.loadPlan is the output;
\* out.skipped records the units the loop passes over, with the height of
\* the cursor at that moment.
RECURSIVE PackSection(_, _, _, _, _)
PackSection(units, section, truck, cur, out) ==
  IF units = <<>> THEN out
  ELSE LET item == Head(units)
           at == Advance(cur, item, section, truck)
       IN IF at.z + DimOr30(item.height) > truck.height
          THEN PackSection(Tail(units), section, truck, at,
                 [out EXCEPT !.skipped =
                   Append(@, [item |-> item, z |-> at.z, placement |-> section.name])])
          ELSE PackSection(Tail(units), section, truck,
                 [at EXCEPT !.x = @ + DimOr30(item.length),
                            !.layerHeight = Max(@, DimOr30(item.height)),
                            !.rowWidth = Max(@, DimOr30(item.width))],
                 [out EXCEPT !.loadPlan = Append(@, LoadPlanItem(item, at, section))])

\* Mutant: the units of a section are packed in the order they arrive.
RECURSIVE PackSections_Unsorted(_, _, _)
PackSections_Unsorted(sections, truck, out) ==
  IF sections = <<>> THEN out
  ELSE LET section == Head(sections)
       IN PackSections_Unsorted(Tail(sections), truck,
            PackSection(section.items, section, truck, SectionStart(section), out))

RECURSIVE PackSections(_, _, _)
PackSections(sections, truck, out) ==
  IF sections = <<>> THEN out
  ELSE LET section == Head(sections)
           byWeight == SortDescBy(section.items,
                                  [u \in Range(section.items) |-> u.weight])
       IN PackSections(Tail(sections), truck,
            PackSection(byWeight, section, truck, SectionStart(section), out))

\* loadPlan is the LoadPlanItem[] the function returns.
generateLoadPlan(trip, route, truck, orders) ==
  PackSections(SectionsOf(AllItems(trip, route, orders), truck), truck,
               [loadPlan |-> <<>>, skipped |-> <<>>])

\* The trips of one truck as autoOptimize returns them.  skipped is not a
\* field of the output: it keeps what the packer passed over, for the
\* properties that speak about it.
TripsData(t, orders) ==
  [j \in DOMAIN t.trips |->
    LET trip == t.trips[j]
        route == getOptimizedRoute(trip, orders)
        plan == generateLoadPlan(trip, route, t.truck, orders)
    IN [tripId |-> trip.tripId, orders |-> trip.loadedOrders, route |-> route,
        loadPlan |-> plan.loadPlan, skipped |-> plan.skipped,
        deliveryTimeMin |-> getTripRouteTime(trip, TRUE, orders),
        zones |-> trip.assignedZones]]

AssignmentsOf(tw, orders) ==
  [k \in DOMAIN tw |->
    [truck |-> tw[k].truck, totalTrips |-> Len(tw[k].trips),
     totalOrders |-> tw[k].totalOrders,
     totalRouteTimeMin |-> tw[k].totalRouteTime,
     trips |-> TripsData(tw[k], orders)]]

\* autoOptimize returns the plan: success, the assignments with their routes
\* and load plans, the summary, the unassigned orders.
AutoOptimizeReturn ==
  /\ pc = "totals"
  /\ assignments' = AssignmentsOf(trucksWithTrips, ordersData)
  /\ summary' = [success |-> TRUE] @@ summary
  /\ pc' = "done"
  /\ UNCHANGED <<ordersData, trucksData, trucksWithTrips, unassignedOrders,
                 zoneTruckMap, zoneQueue, remainingOrders, packVars, runVars, assignVars>>

NoPack ==
  /\ items = <<>>
  /\ bin = [width |-> 0, depth |-> 0, height |-> 0, maxWeight |-> 0]
  /\ sortedItems = <<>>
  /\ packedItems = <<>>
  /\ unpackedItems = <<>>
  /\ spaces = <<>>
  /\ totalWeight = 0
  /\ totalVolume = 0
  /\ packResult = [done |-> FALSE]

NoRuns ==
  /\ truckStatus = <<>>
  /\ deliveryRuns = <<>>
  /\ planned = <<>>

NoAssign ==
  /\ ordersWithItems = <<>>
  /\ truckData = <<>>
  /\ availableHelpers = 0
  /\ availableTrucks = <<>>
  /\ zoneOrderQueue = <<>>
  /\ remainingHelpers = 0
  /\ truckAssignments = <<>>

NoPlan ==
  /\ ordersData = <<>>
  /\ trucksData = <<>>
  /\ trucksWithTrips = <<>>
  /\ unassignedOrders = <<>>
  /\ zoneTruckMap = [z \in Zones |-> <<>>]
  /\ zoneQueue = <<>>
  /\ remainingOrders = <<>>
  /\ summary = NoSummary
  /\ assignments = <<>>

Init ==
  /\ pc = "start"
  /\ \E n \in 1..MaxOrders : ordersData \in OrderInputs(n)
  /\ trucksData \in TruckInputs
  /\ trucksWithTrips = <<>>
  /\ unassignedOrders = <<>>
  /\ zoneTruckMap = [z \in Zones |-> <<>>]
  /\ zoneQueue = <<>>
  /\ remainingOrders = <<>>
  /\ summary = NoSummary
  /\ assignments = <<>>
  /\ NoPack
  /\ NoRuns
  /\ NoAssign

Next ==
  Prepare \/ Step3Order \/ Step4Begin \/ Step4Order \/ Totals \/ AutoOptimizeReturn

Spec == Init /\ [][Next]_vars

(***************************************************************************)
(* The same run over inputs that exercise routes and load plans: several   *)
(* sectors in one zone, a helper requirement, units narrower than a        *)
(* section, taller than the truck and longer than the truck is wide.       *)
(***************************************************************************)
MaxStops == 3

Cartons == <<Line(Sku(40, 15, 30, 10), 2)>>

\* Stored upright: taller than the truck is high.
Cabinet == <<Line(Sku(30, 15, 90, 30), 1)>>

\* Longer than the truck is wide.
Beam == <<Line(Sku(90, 15, 30, 60), 1)>>

\* A flat panel as deep as the truck, wider than a section is deep.
Panel == <<Line(Sku(60, 90, 10, 10), 1)>>

\* Two flat panels, one stored lengthwise and one stored crosswise: each
\* lies flat on the truck floor, the first as stored, the second turned by
\* 90 degrees.
Panels == <<Line(Sku(60, 90, 10, 10), 1), Line(Sku(90, 60, 10, 10), 1)>>

Place(zone, sector, helpers) ==
  [zone |-> zone, sector |-> sector, helpersRequired |-> helpers]

\* Stored pending orders the inputs are drawn from: a place and the lines.
PlanRows ==
  { <<Place("West", "64", "none"), Cartons>>,
    <<Place("West", "60", "two"), Cabinet>>,
    <<Place("Central", "01", "none"), Cartons>>,
    <<Place("Central", "01", "none"), Beam>>,
    <<Place("South", "09", "none"), Cabinet>>,
    <<Place("North", "73", "none"), Cartons>>,
    <<Place("East", "46", "none"), Beam>>,
    <<Place("East", "46", "none"), Cartons>>,
    <<Place("East", "38", "none"), Cartons>>,
    <<Place("East", "46", "none"), Panel>>,
    <<Place("North", "73", "none"), Panels>> }

PlanTruck == TruckRow(60, 90, 60, 150)

PlanOrderInputs(n) ==
  { [i \in 1..n |-> BuildOrder(i, c[i][1], c[i][2])] : c \in [1..n -> PlanRows] }

InitPlan ==
  /\ pc = "start"
  /\ \E n \in 1..MaxStops : ordersData \in PlanOrderInputs(n)
  /\ trucksData = <<BuildTruck(1, PlanTruck)>>
  /\ trucksWithTrips = <<>>
  /\ unassignedOrders = <<>>
  /\ zoneTruckMap = [z \in Zones |-> <<>>]
  /\ zoneQueue = <<>>
  /\ remainingOrders = <<>>
  /\ summary = NoSummary
  /\ assignments = <<>>
  /\ NoPack
  /\ NoRuns
  /\ NoAssign

SpecPlan == InitPlan /\ [][Next]_vars

(***************************************************************************)
(* The free-space packer packItems.                                        *)
(***************************************************************************)
Item(id, l, w, h, kg) ==
  [id |-> id, length |-> l, width |-> w, height |-> h, weight |-> kg,
   volume |-> l * w * h]

\* Items the inputs are drawn from.
ItemCatalogue ==
  { Item(1, 50, 50, 50, 10), Item(2, 150, 50, 50, 10), Item(3, 100, 100, 50, 10),
    Item(4, 100, 100, 50, 30), Item(5, 300, 100, 50, 10) }

Bin(w, d, h, kg) == [width |-> w, depth |-> d, height |-> h, maxWeight |-> kg]

\* Containers the inputs are drawn from.
BinCatalogue ==
  { Bin(200, 400, 200, 25), Bin(200, 400, 200, 1000), Bin(100, 100, 100, 1000) }

ItemInputs == UNION { [1..n -> ItemCatalogue] : n \in 0..MaxItems }

Space(x, y, z, w, d, h) == [x |-> x, y |-> y, z |-> z, w |-> w, d |-> d, h |-> h]

\* rotations: 0 and 90 degrees on the horizontal plane.
Rotations(item) ==
  << [rotation |-> 0, length |-> item.length, width |-> item.width],
     [rotation |-> 90, length |-> item.width, width |-> item.length] >>

\* Mutant: the depth of the space is not compared.
FitsSpace_NoDepthTest(rot, item, space) ==
  rot.length <= space.w /\ item.height <= space.h

FitsSpace(rot, item, space) ==
  rot.length <= space.w /\ rot.width <= space.d /\ item.height <= space.h

\* Mutant: the scan prefers the lowest x, then y, then z.
RECURSIVE BestSpace_LeftFirst(_, _, _, _, _)
BestSpace_LeftFirst(sp, rot, item, i, best) ==
  IF i > Len(sp) THEN best
  ELSE IF FitsSpace(rot, item, sp[i])
          /\ ( \/ best = 0
               \/ sp[i].x < sp[best].x
               \/ (sp[i].x = sp[best].x /\ sp[i].y < sp[best].y)
               \/ (sp[i].x = sp[best].x /\ sp[i].y = sp[best].y /\ sp[i].z < sp[best].z) )
       THEN BestSpace_LeftFirst(sp, rot, item, i + 1, i)
       ELSE BestSpace_LeftFirst(sp, rot, item, i + 1, best)

\* The scan for the best space: lowest z, then lowest y, then lowest x; the
\* result is an index into spaces, 0 when no space fits.
RECURSIVE BestSpace(_, _, _, _, _)
BestSpace(sp, rot, item, i, best) ==
  IF i > Len(sp) THEN best
  ELSE IF FitsSpace(rot, item, sp[i])
          /\ ( \/ best = 0
               \/ sp[i].z < sp[best].z
               \/ (sp[i].z = sp[best].z /\ sp[i].y < sp[best].y)
               \/ (sp[i].z = sp[best].z /\ sp[i].y = sp[best].y /\ sp[i].x < sp[best].x) )
       THEN BestSpace(sp, rot, item, i + 1, i)
       ELSE BestSpace(sp, rot, item, i + 1, best)

PackedItemAt(item, rot, space) ==
  [id |-> item.id, length |-> item.length, width |-> item.width,
   height |-> item.height, weight |-> item.weight, volume |-> item.volume,
   x |-> space.x, y |-> space.y, z |-> space.z, rotation |-> rot.rotation,
   rotatedLength |-> rot.length, rotatedWidth |-> rot.width]

RemoveAt(s, i) == SubSeq(s, 1, i - 1) \o SubSeq(s, i + 1, Len(s))

\* Mutant: the space in front keeps the full width of the used space.
SplitSpace_FrontFullWidth(sp, i, rot, item) ==
  LET bestSpace == sp[i]
      right == IF bestSpace.w - rot.length > 0
               THEN <<Space(bestSpace.x + rot.length, bestSpace.y, bestSpace.z,
                            bestSpace.w - rot.length, bestSpace.d, bestSpace.h)>>
               ELSE <<>>
      front == IF bestSpace.d - rot.width > 0
               THEN <<Space(bestSpace.x, bestSpace.y + rot.width, bestSpace.z,
                            bestSpace.w, bestSpace.d - rot.width, bestSpace.h)>>
               ELSE <<>>
      above == IF bestSpace.h - item.height > 0
               THEN <<Space(bestSpace.x, bestSpace.y, bestSpace.z + item.height,
                            rot.length, rot.width, bestSpace.h - item.height)>>
               ELSE <<>>
  IN RemoveAt(sp, i) \o right \o front \o above

\* spaces after the used space is removed and the spaces to the right, in
\* front and above the placed item are added.
SplitSpace(sp, i, rot, item) ==
  LET bestSpace == sp[i]
      right == IF bestSpace.w - rot.length > 0
               THEN <<Space(bestSpace.x + rot.length, bestSpace.y, bestSpace.z,
                            bestSpace.w - rot.length, bestSpace.d, bestSpace.h)>>
               ELSE <<>>
      front == IF bestSpace.d - rot.width > 0
               THEN <<Space(bestSpace.x, bestSpace.y + rot.width, bestSpace.z,
                            rot.length, bestSpace.d - rot.width, bestSpace.h)>>
               ELSE <<>>
      above == IF bestSpace.h - item.height > 0
               THEN <<Space(bestSpace.x, bestSpace.y, bestSpace.z + item.height,
                            rot.length, rot.width, bestSpace.h - item.height)>>
               ELSE <<>>
  IN RemoveAt(sp, i) \o right \o front \o above

\* The loop over the rotations of one item: the first rotation with a
\* fitting space places the item.
RECURSIVE TryRotations(_, _, _)
TryRotations(sp, item, rots) ==
  IF rots = <<>> THEN [placed |-> FALSE]
  ELSE LET rot == Head(rots)
           bestSpaceIndex == BestSpace(sp, rot, item, 1, 0)
       IN IF bestSpaceIndex > 0
          THEN [placed |-> TRUE,
                packedItem |-> PackedItemAt(item, rot, sp[bestSpaceIndex]),
                spaces |-> SplitSpace(sp, bestSpaceIndex, rot, item)]
          ELSE TryRotations(sp, item, Tail(rots))

PackSort ==
  /\ pc = "pack_start"
  /\ sortedItems' = SortDescBy(items, [it \in Range(items) |-> it.volume])
  /\ packedItems' = <<>>
  /\ unpackedItems' = <<>>
  /\ spaces' = <<Space(0, 0, 0, bin.width, bin.depth, bin.height)>>
  /\ totalWeight' = 0
  /\ totalVolume' = 0
  /\ pc' = "packing"
  /\ UNCHANGED <<items, bin, packResult, v3vars, runVars, assignVars>>

\* Mutant: the weight constraint is not checked.
PackItem_NoWeightCheck ==
  /\ pc = "packing"
  /\ sortedItems # <<>>
  /\ LET item == Head(sortedItems)
         r == TryRotations(spaces, item, Rotations(item))
     IN IF r.placed
        THEN /\ packedItems' = Append(packedItems, r.packedItem)
             /\ totalWeight' = totalWeight + item.weight
             /\ totalVolume' = totalVolume + item.volume
             /\ spaces' = r.spaces
             /\ UNCHANGED unpackedItems
        ELSE /\ unpackedItems' = Append(unpackedItems, item)
             /\ UNCHANGED <<packedItems, spaces, totalWeight, totalVolume>>
  /\ sortedItems' = Tail(sortedItems)
  /\ UNCHANGED <<pc, items, bin, packResult, v3vars, runVars, assignVars>>

\* Mutant: an item that no space takes is not recorded as unpacked.
PackItem_DropUnplaced ==
  /\ pc = "packing"
  /\ sortedItems # <<>>
  /\ LET item == Head(sortedItems)
     IN IF totalWeight + item.weight > bin.maxWeight
        THEN /\ unpackedItems' = Append(unpackedItems, item)
             /\ UNCHANGED <<packedItems, spaces, totalWeight, totalVolume>>
        ELSE LET r == TryRotations(spaces, item, Rotations(item))
             IN IF r.placed
                THEN /\ packedItems' = Append(packedItems, r.packedItem)
                     /\ totalWeight' = totalWeight + item.weight
                     /\ totalVolume' = totalVolume + item.volume
                     /\ spaces' = r.spaces
                     /\ UNCHANGED unpackedItems
                ELSE UNCHANGED <<unpackedItems, packedItems, spaces, totalWeight,
                                 totalVolume>>
  /\ sortedItems' = Tail(sortedItems)
  /\ UNCHANGED <<pc, items, bin, packResult, v3vars, runVars, assignVars>>

\* One iteration of the loop over sortedItems.
PackItem ==
  /\ pc = "packing"
  /\ sortedItems # <<>>
  /\ LET item == Head(sortedItems)
     IN IF totalWeight + item.weight > bin.maxWeight
        THEN /\ unpackedItems' = Append(unpackedItems, item)
             /\ UNCHANGED <<packedItems, spaces, totalWeight, totalVolume>>
        ELSE LET r == TryRotations(spaces, item, Rotations(item))
             IN IF r.placed
                THEN /\ packedItems' = Append(packedItems, r.packedItem)
                     /\ totalWeight' = totalWeight + item.weight
                     /\ totalVolume' = totalVolume + item.volume
                     /\ spaces' = r.spaces
                     /\ UNCHANGED unpackedItems
                ELSE /\ unpackedItems' = Append(unpackedItems, item)
                     /\ UNCHANGED <<packedItems, spaces, totalWeight, totalVolume>>
  /\ sortedItems' = Tail(sortedItems)
  /\ UNCHANGED <<pc, items, bin, packResult, v3vars, runVars, assignVars>>

\* A fraction num / den with den > 0.
Frac(n, d) == [num |-> n, den |-> d]

\* Mutant: the centres are averaged without their weights.
CenterOfGravity_Unweighted(packed, weight) ==
  IF weight > 0
  THEN [x |-> Frac(SumSeq([i \in DOMAIN packed |->
                     2 * packed[i].x + packed[i].rotatedLength]),
                   2 * Len(packed)),
        y |-> Frac(SumSeq([i \in DOMAIN packed |->
                     2 * packed[i].y + packed[i].rotatedWidth]),
                   2 * Len(packed)),
        z |-> Frac(SumSeq([i \in DOMAIN packed |->
                     2 * packed[i].z + packed[i].height]),
                   2 * Len(packed))]
  ELSE [x |-> Frac(0, 1), y |-> Frac(0, 1), z |-> Frac(0, 1)]

\* Centre of gravity: each coordinate is the weighted sum of the item centres
\* divided by totalWeight, and 0 when totalWeight is 0.  A centre x + l / 2
\* is kept as (2 x + l) / 2.
CenterOfGravity(packed, weight) ==
  IF weight > 0
  THEN [x |-> Frac(SumSeq([i \in DOMAIN packed |->
                     (2 * packed[i].x + packed[i].rotatedLength) * packed[i].weight]),
                   2 * weight),
        y |-> Frac(SumSeq([i \in DOMAIN packed |->
                     (2 * packed[i].y + packed[i].rotatedWidth) * packed[i].weight]),
                   2 * weight),
        z |-> Frac(SumSeq([i \in DOMAIN packed |->
                     (2 * packed[i].z + packed[i].height) * packed[i].weight]),
                   2 * weight)]
  ELSE [x |-> Frac(0, 1), y |-> Frac(0, 1), z |-> Frac(0, 1)]

\* Mutant: only the x axis is checked.
IsBalanced_XOnly(cog, b) ==
  Abs(10 * cog.x.num - 5 * b.width * cog.x.den) <= 3 * b.width * cog.x.den

\* |cog - centre| <= 0.3 * size on the x and y axes, for cog = num / den.
IsBalanced(cog, b) ==
  /\ Abs(10 * cog.x.num - 5 * b.width * cog.x.den) <= 3 * b.width * cog.x.den
  /\ Abs(10 * cog.y.num - 5 * b.depth * cog.y.den) <= 3 * b.depth * cog.y.den

PackFinish ==
  /\ pc = "packing"
  /\ sortedItems = <<>>
  /\ LET cog == CenterOfGravity(packedItems, totalWeight)
     IN packResult' =
          [done |-> TRUE,
           success |-> (Len(unpackedItems) = 0),
           totalVolume |-> bin.width * bin.depth * bin.height,
           usedVolume |-> totalVolume,
           totalWeight |-> totalWeight,
           centerOfGravity |-> cog,
           isBalanced |-> IsBalanced(cog, bin)]
  /\ pc' = "pack_done"
  /\ UNCHANGED <<items, bin, sortedItems, packedItems, unpackedItems, spaces,
                 totalWeight, totalVolume, v3vars, runVars, assignVars>>

InitPack ==
  /\ pc = "pack_start"
  /\ items \in ItemInputs
  /\ bin \in BinCatalogue
  /\ sortedItems = <<>>
  /\ packedItems = <<>>
  /\ unpackedItems = <<>>
  /\ spaces = <<>>
  /\ totalWeight = 0
  /\ totalVolume = 0
  /\ packResult = [done |-> FALSE]
  /\ NoPlan
  /\ NoRuns
  /\ NoAssign

NextPack == PackSort \/ PackItem \/ PackFinish

SpecPack == InitPack /\ [][NextPack]_vars

(***************************************************************************)
(* Delivery runs: the truck and run statuses the routers keep in the       *)
(* trucks and delivery_runs tables (globalOptimize, optimize,              *)
(* deliveryRuns, liveTracking).                                            *)
(***************************************************************************)
MaxRuns == 3

TruckIds == {1, 2}

\* The trips autoOptimize may plan on one truck: the number of stops of
\* each trip.
TripStops == {<<1>>, <<2>>, <<1, 1>>}

AvailableTrucks == {t \in DOMAIN truckStatus : truckStatus[t] = "available"}

\* The assignments the client sends to createFromAutoOptimize: one per
\* trip of every truck of the result.
RECURSIVE AssignmentsPerTrip(_, _)
AssignmentsPerTrip(trips, trucks) ==
  IF trucks = {} THEN <<>>
  ELSE LET t == CHOOSE x \in trucks : \A y \in trucks : x <= y
       IN [j \in DOMAIN trips[t] |-> [truckId |-> t, stops |-> trips[t][j]]]
          \o AssignmentsPerTrip(trips, trucks \ {t})

\* autoOptimize plans on the trucks whose status is available, and on all
\* of them: every such truck has at least its first trip.
AutoOptimizeRuns ==
  /\ pc = "runs"
  /\ AvailableTrucks # {}
  /\ \E trips \in [AvailableTrucks -> TripStops] :
       /\ planned' = AssignmentsPerTrip(trips, AvailableTrucks)
       /\ Len(deliveryRuns) + Len(planned') <= MaxRuns
  /\ UNCHANGED <<pc, truckStatus, deliveryRuns, v3vars, packVars, assignVars>>

NewRun(truckId, stops) ==
  [truckId |-> truckId, status |-> "planned", stops |-> stops,
   currentStopIndex |-> 0]

\* One delivery run per assignment; the truck of each goes in_transit.
CreateFromAutoOptimize ==
  /\ pc = "runs"
  /\ planned # <<>>
  /\ deliveryRuns' = deliveryRuns \o
       [i \in DOMAIN planned |-> NewRun(planned[i].truckId, planned[i].stops)]
  /\ truckStatus' =
       [t \in DOMAIN truckStatus |->
         IF \E i \in DOMAIN planned : planned[i].truckId = t
         THEN "in_transit" ELSE truckStatus[t]]
  /\ planned' = <<>>
  /\ UNCHANGED <<pc, v3vars, packVars, assignVars>>

\* optimize.createFromOptimization: one run on the truck of the input; the
\* truck status is written as available.
CreateFromOptimization ==
  /\ pc = "runs"
  /\ Len(deliveryRuns) + Len(planned) < MaxRuns
  /\ \E t \in DOMAIN truckStatus : \E stops \in 1..2 :
       /\ deliveryRuns' = Append(deliveryRuns, NewRun(t, stops))
       /\ truckStatus' = [truckStatus EXCEPT ![t] = "available"]
  /\ UNCHANGED <<pc, planned, v3vars, packVars, assignVars>>

\* deliveryRuns.start
Start ==
  /\ pc = "runs"
  /\ \E id \in DOMAIN deliveryRuns :
       /\ deliveryRuns' = [deliveryRuns EXCEPT ![id].status = "in_progress",
                                               ![id].currentStopIndex = 1]
       /\ truckStatus' = [truckStatus EXCEPT ![deliveryRuns[id].truckId] = "on_route"]
  /\ UNCHANGED <<pc, planned, v3vars, packVars, assignVars>>

\* deliveryRuns.complete
Complete ==
  /\ pc = "runs"
  /\ \E id \in DOMAIN deliveryRuns :
       /\ deliveryRuns' = [deliveryRuns EXCEPT ![id].status = "completed"]
       /\ truckStatus' = [truckStatus EXCEPT ![deliveryRuns[id].truckId] = "available"]
  /\ UNCHANGED <<pc, planned, v3vars, packVars, assignVars>>

\* liveTracking.simulateMovement, the call on which the truck arrives at
\* its next stop.
SimulateMovement ==
  /\ pc = "runs"
  /\ \E id \in DOMAIN deliveryRuns :
       /\ deliveryRuns[id].status = "in_progress"
       /\ deliveryRuns[id].currentStopIndex < deliveryRuns[id].stops
       /\ deliveryRuns' = [deliveryRuns EXCEPT ![id].currentStopIndex = @ + 1]
  /\ UNCHANGED <<pc, truckStatus, planned, v3vars, packVars, assignVars>>

\* liveTracking.deliverCurrentStop: the last stop completes the run and
\* releases the truck.
DeliverCurrentStop ==
  /\ pc = "runs"
  /\ \E id \in DOMAIN deliveryRuns :
       LET run == deliveryRuns[id]
       IN /\ run.status = "in_progress"
          /\ ~(run.currentStopIndex = 0 \/ run.currentStopIndex > run.stops)
          /\ IF run.currentStopIndex >= run.stops
             THEN /\ deliveryRuns' = [deliveryRuns EXCEPT ![id].status = "completed"]
                  /\ truckStatus' = [truckStatus EXCEPT ![run.truckId] = "available"]
             ELSE UNCHANGED <<deliveryRuns, truckStatus>>
  /\ UNCHANGED <<pc, planned, v3vars, packVars, assignVars>>

InitRuns ==
  /\ pc = "runs"
  /\ truckStatus = [t \in TruckIds |-> "available"]
  /\ deliveryRuns = <<>>
  /\ planned = <<>>
  /\ NoAssign
  /\ NoPlan
  /\ NoPack

NextRuns ==
  \/ AutoOptimizeRuns \/ CreateFromAutoOptimize \/ CreateFromOptimization
  \/ Start \/ Complete \/ SimulateMovement \/ DeliverCurrentStop

SpecRuns == InitRuns /\ [][NextRuns]_vars

(***************************************************************************)
(* The single-trip planner: assignOrdersToTrucks (stage A of the           *)
(* single-trip autoOptimize).                                              *)
(***************************************************************************)
MaxAssignOrders == 3

\* Two pallets that fill the small truck by volume and by weight.
Pallets == <<Line(Sku(60, 60, 30, 30), 2)>>

\* Three light crates that fill the large truck by volume.
Bulk == <<Line(Sku(60, 60, 30, 10), 3)>>

\* Stored pending orders the inputs are drawn from: delivery zone, helpers
\* required, lines.
AssignRows ==
  { <<"West", "none", Cartons>>, <<"West", "one", Cartons>>,
    <<"West", "two", Pallets>>, <<"North", "one", Cartons>>,
    <<"North", "none", Bulk>>, <<"North", "two", Cartons>> }

AssignFleets == { <<SmallTruck>>, <<SmallTruck, LargeTruck>> }

HelpersOnDuty == {1, 2}

\* OrderData of the single-trip planner: the totals over the items with
\* the defaults for a missing weight or dimension.
OrderWithItems(id, zone, helpers, lines) ==
  [id |-> id, zone |-> zone, helpersRequired |-> helpers,
   totalWeight |-> SumSeq([i \in DOMAIN lines |->
                            WeightOr5(lines[i].sku.weight) * lines[i].quantity]),
   totalVolume |-> SumSeq([i \in DOMAIN lines |->
                            DimOr30(lines[i].sku.length) * DimOr30(lines[i].sku.width)
                              * DimOr30(lines[i].sku.height) * lines[i].quantity])]

AssignOrderInputs(n) ==
  { [i \in 1..n |-> OrderWithItems(i, c[i][1], c[i][2], c[i][3])] :
    c \in [1..n -> AssignRows] }

\* HELPER_OPTIONS[helpersRequired].count
HelperCount(h) ==
  CASE h = "none" -> 0 [] h = "one" -> 1 [] h = "two" -> 2

\* The zones of ZONES by their great-circle distance from DEPOT, closest
\* first: West 7.6 km, North 20.6, South 20.8, Central 23.6, East 33.6.
ZonesByDistance == <<"West", "North", "South", "Central", "East">>

\* The orders in the order the two nested loops visit them: zone by zone,
\* heaviest first inside a zone.
OrdersByZone(ords) ==
  Concat([z \in DOMAIN ZonesByDistance |->
           LET zoneOrders == SelectSeq(ords, LAMBDA o : o.zone = ZonesByDistance[z])
           IN SortDescBy(zoneOrders, [o \in Range(zoneOrders) |-> o.totalWeight])])

AssignStart ==
  /\ pc = "assign_start"
  /\ availableTrucks' = SortDescBy(truckData, [t \in Range(truckData) |-> t.volume])
  /\ zoneOrderQueue' = OrdersByZone(ordersWithItems)
  /\ remainingHelpers' = availableHelpers
  /\ truckAssignments' = <<>>
  /\ pc' = "assigning"
  /\ UNCHANGED <<ordersWithItems, truckData, availableHelpers, v3vars, packVars, runVars>>

\* The order fits into the assignment by weight and by volume.
FitsAssignment(assignment, order) ==
  /\ assignment.totalWeight + order.totalWeight <= assignment.truck.maxWeight
  /\ assignment.totalVolume + order.totalVolume <= assignment.truck.volume

\* The first assignment that holds an order of the same zone and takes the
\* order; 0 when there is none.
BestAssignment(asg, order) ==
  LET ok == {a \in DOMAIN asg :
               /\ \E i \in DOMAIN asg[a].orders : asg[a].orders[i].zone = order.zone
               /\ FitsAssignment(asg[a], order)}
  IN IF ok = {} THEN 0 ELSE CHOOSE a \in ok : \A b \in ok : a <= b

\* Mutant: a truck is taken when the weight fits, whatever the volume.
FitsTruck_WeightOnly(truck, order) ==
  order.totalWeight <= truck.maxWeight

FitsTruck(truck, order) ==
  order.totalWeight <= truck.maxWeight /\ order.totalVolume <= truck.volume

\* The first available truck with enough capacity; 0 when there is none.
FirstTruck(av, order) ==
  LET ok == {t \in DOMAIN av : FitsTruck(av[t], order)}
  IN IF ok = {} THEN 0 ELSE CHOOSE t \in ok : \A u \in ok : t <= u

\* One iteration of the loop over the orders of a zone.
AssignOrder ==
  /\ pc = "assigning"
  /\ zoneOrderQueue # <<>>
  /\ LET order == Head(zoneOrderQueue)
         helpersNeeded == HelperCount(order.helpersRequired)
         a == BestAssignment(truckAssignments, order)
         t == FirstTruck(availableTrucks, order)
     IN IF helpersNeeded > remainingHelpers /\ order.helpersRequired # "none"
        THEN UNCHANGED <<truckAssignments, availableTrucks, remainingHelpers>>
        ELSE IF a # 0
        THEN /\ truckAssignments' =
                  [truckAssignments EXCEPT
                     ![a].orders = Append(@, order),
                     ![a].totalWeight = @ + order.totalWeight,
                     ![a].totalVolume = @ + order.totalVolume,
                     ![a].helpersNeeded = Max(@, helpersNeeded)]
             /\ UNCHANGED <<availableTrucks, remainingHelpers>>
        ELSE IF t # 0
        THEN /\ availableTrucks' = RemoveAt(availableTrucks, t)
             /\ truckAssignments' =
                  Append(truckAssignments,
                         [truck |-> availableTrucks[t], orders |-> <<order>>,
                          totalWeight |-> order.totalWeight,
                          totalVolume |-> order.totalVolume,
                          helpersNeeded |-> helpersNeeded])
             /\ remainingHelpers' = remainingHelpers - helpersNeeded
        ELSE UNCHANGED <<truckAssignments, availableTrucks, remainingHelpers>>
  /\ zoneOrderQueue' = Tail(zoneOrderQueue)
  /\ UNCHANGED <<pc, ordersWithItems, truckData, availableHelpers, v3vars, packVars,
                 runVars>>

\* return assignments
AssignReturn ==
  /\ pc = "assigning"
  /\ zoneOrderQueue = <<>>
  /\ pc' = "assigned"
  /\ UNCHANGED <<assignVars, v3vars, packVars, runVars>>

InitAssign ==
  /\ pc = "assign_start"
  /\ \E n \in 1..MaxAssignOrders : ordersWithItems \in AssignOrderInputs(n)
  /\ \E fleet \in AssignFleets :
       truckData = [i \in DOMAIN fleet |-> BuildTruck(i, fleet[i])]
  /\ availableHelpers \in HelpersOnDuty
  /\ availableTrucks = <<>>
  /\ zoneOrderQueue = <<>>
  /\ remainingHelpers = 0
  /\ truckAssignments = <<>>
  /\ NoPlan
  /\ NoPack
  /\ NoRuns

NextAssign == AssignStart \/ AssignOrder \/ AssignReturn

SpecAssign == InitAssign /\ [][NextAssign]_vars

(***************************************************************************)
(* Properties of the multi-trip planner.                                   *)
(***************************************************************************)
\* Positions <<truck, trip>> of all trips of the plan.
TripPositions(tw) ==
  {<<k, j>> \in (DOMAIN tw) \X (1..(MaxOrders + 1)) : j \in DOMAIN tw[k].trips}

TripAt(tw, p) == tw[p[1]].trips[p[2]]

LoadedVolume(trip) ==
  SumSeq([i \in DOMAIN trip.loadedOrders |-> ordersData[trip.loadedOrders[i]].totalVolume])

LoadedWeight(trip) ==
  SumSeq([i \in DOMAIN trip.loadedOrders |-> ordersData[trip.loadedOrders[i]].totalWeight])

TripWithinCapacity(trip) ==
  /\ trip.currentVolume <= trip.maxVolume
  /\ trip.currentWeight <= trip.maxWeight
  /\ trip.currentVolume = LoadedVolume(trip)
  /\ trip.currentWeight = LoadedWeight(trip)

\* The trip at position p before the step; a trip the step opened was empty.
TripBefore(p) ==
  IF p \in TripPositions(trucksWithTrips) THEN TripAt(trucksWithTrips, p)
  ELSE EmptyTrip(p[2], trucksWithTrips'[p[1]].truck)

\* A step changes the load of a trip only by loading one order that
\* canFitInTrip accepted for that trip.
LoadOnlyAfterFit ==
  \A p \in TripPositions(trucksWithTrips') :
    TripAt(trucksWithTrips', p).loadedOrders # TripBefore(p).loadedOrders =>
      \E o \in DOMAIN ordersData :
        /\ canFitInTrip(TripBefore(p), ordersData[o])
        /\ TripAt(trucksWithTrips', p) = loadOrderIntoTrip(TripBefore(p), ordersData[o])

\* C1: in every state of a run of runOptimizationV3, the result included,
\* every trip of every truck has currentVolume <= maxVolume and
\* currentWeight <= maxWeight, and these equal the sums over loadedOrders;
\* every step that loads an order loads it into a trip for which
\* canFitInTrip accepted it.
C1_TripCapacity ==
  /\ [](\A p \in TripPositions(trucksWithTrips) :
          TripWithinCapacity(TripAt(trucksWithTrips, p)))
  /\ [][LoadOnlyAfterFit]_vars

\* A finished plan in which a truck runs a second, loaded trip after a first
\* trip that holds more than one order.
C1_Witness ==
  /\ pc = "done"
  /\ \E k \in DOMAIN trucksWithTrips :
       /\ Len(trucksWithTrips[k].trips) >= 2
       /\ Len(trucksWithTrips[k].trips[1].loadedOrders) >= 2
       /\ CurrentTrip(trucksWithTrips[k]).loadedOrders # <<>>

\* Number of times order id o is loaded in some trip.
TimesLoaded(tw, o) ==
  SumSeq([k \in DOMAIN tw |->
    SumSeq([j \in DOMAIN tw[k].trips |->
      Cardinality({i \in DOMAIN tw[k].trips[j].loadedOrders :
                     tw[k].trips[j].loadedOrders[i] = o})])])

TimesIn(s, o) == Cardinality({i \in DOMAIN s : s[i] = o})

\* C2: runOptimizationV3 conserves orders: in the result every input order
\* is loaded exactly once in one trip of one truck, or is exactly once in
\* unassignedOrders, never both; assignedOrders + unassignedOrders =
\* totalOrders; the plan is returned with success also when orders are
\* left unassigned.  While the run proceeds, an order is never in two places.
C2_Conservation ==
  /\ pc # "start" =>
       \A o \in DOMAIN ordersData :
         TimesLoaded(trucksWithTrips, o) + TimesIn(unassignedOrders, o)
           + TimesIn(zoneQueue, o) + TimesIn(remainingOrders, o) = 1
  /\ pc \in {"totals", "done"} =>
       /\ \A o \in DOMAIN ordersData :
            TimesLoaded(trucksWithTrips, o) + TimesIn(unassignedOrders, o) = 1
       /\ summary.assignedOrders + summary.unassignedOrders = summary.totalOrders
       /\ summary.totalOrders = Len(ordersData)
       /\ summary.unassignedOrders = Len(unassignedOrders)
  /\ pc = "done" => summary.success

\* A returned plan with an unassigned order and an order loaded in a trip
\* that step 4 opened.
C2_Witness ==
  /\ pc = "done"
  /\ summary.success
  /\ unassignedOrders # <<>>
  /\ \E k \in DOMAIN trucksWithTrips :
       /\ Len(trucksWithTrips[k].trips) >= 2
       /\ CurrentTrip(trucksWithTrips[k]).loadedOrders # <<>>

FitsNoFreshTrip(order) ==
  \A i \in DOMAIN trucksData : ~canFitInTrip(EmptyTrip(1, trucksData[i]), order)

\* C3: in the result of runOptimizationV3 an order is in unassignedOrders
\* if and only if canFitInTrip rejects it for an empty trip of every truck.
C3_UnassignedIffFitsNoTruck ==
  pc \in {"totals", "done"} =>
    \A o \in DOMAIN ordersData :
      (o \in Range(unassignedOrders)) <=> FitsNoFreshTrip(ordersData[o])

\* A result with an order that fits no truck and is unassigned, and an order
\* that no current trip could take and that went into a new trip.
C3_Witness ==
  /\ pc = "done"
  /\ \E o \in Range(unassignedOrders) : FitsNoFreshTrip(ordersData[o])
  /\ \E k \in DOMAIN trucksWithTrips :
       /\ Len(trucksWithTrips[k].trips) >= 2
       /\ CurrentTrip(trucksWithTrips[k]).loadedOrders # <<>>

(***************************************************************************)
(* Properties of the route timing.                                         *)
(***************************************************************************)
\* Zones of the orders loaded in a trip.
ZonesOfTrip(trip) == {ordersData[trip.loadedOrders[i]].zone : i \in DOMAIN trip.loadedOrders}

\* The zone visiting order: the zones of the trip, nearest to the depot first.
ZoneVisitingOrder(trip) ==
  LET zs == ZonesOfTrip(trip)
      n == Cardinality(zs)
  IN CHOOSE s \in [1..n -> zs] :
       \A i, j \in 1..n : i < j => DepotTime(s[i]) < DepotTime(s[j])

ExpectedTripTime(trip, includeReturn) ==
  IF trip.loadedOrders = <<>> THEN 0
  ELSE LET s == ZoneVisitingOrder(trip)
           n == Len(s)
       IN DepotTime(s[1])
          + SumSeq([i \in 1..(n - 1) |-> getInterZoneTime(s[i], s[i + 1])])
          + SumSeq([i \in DOMAIN trip.loadedOrders |->
                     StopTime(ordersData[trip.loadedOrders[i]])])
          + (IF includeReturn THEN DepotTime(s[n]) ELSE 0)

\* C9: getTripRouteTime(trip, includeReturn) is 0 for a trip with no orders
\* and otherwise the depot time of the first zone of the zone visiting
\* order, plus the inter-zone times between consecutive zones of that order,
\* plus the service times of the loaded orders, plus the depot time of the
\* last zone when includeReturn is true.
C9_TripRouteTime ==
  \A p \in TripPositions(trucksWithTrips) : \A includeReturn \in BOOLEAN :
    LET trip == TripAt(trucksWithTrips, p)
    IN /\ getTripRouteTime(trip, includeReturn, ordersData)
            = ExpectedTripTime(trip, includeReturn)
       /\ trip.loadedOrders = <<>> =>
            getTripRouteTime(trip, includeReturn, ordersData) = 0

\* A result with a trip that visits three zones and a trip with no orders.
C9_Witness ==
  /\ pc = "done"
  /\ \E p \in TripPositions(trucksWithTrips) :
       /\ Cardinality(ZonesOfTrip(TripAt(trucksWithTrips, p))) = 3
       /\ getTripRouteTime(TripAt(trucksWithTrips, p), TRUE, ordersData)
            > getTripRouteTime(TripAt(trucksWithTrips, p), FALSE, ordersData)
  /\ \E p \in TripPositions(trucksWithTrips) :
       /\ TripAt(trucksWithTrips, p).loadedOrders = <<>>
       /\ getTripRouteTime(TripAt(trucksWithTrips, p), TRUE, ordersData) = 0

\* C10: getTruckTotalRouteTime is the sum of the trip times with return
\* plus (number of trips - 1) reload intervals of 30 minutes, is 0 for no
\* trips, and is what the result reports as the truck's totalRouteTime.
C10_TruckTotalRouteTime ==
  /\ getTruckTotalRouteTime(<<>>, ordersData) = 0
  /\ \A k \in DOMAIN trucksWithTrips :
       LET trips == trucksWithTrips[k].trips
           expected == SumSeq([j \in DOMAIN trips |->
                                ExpectedTripTime(trips[j], TRUE)])
                       + (Len(trips) - 1) * 30
       IN /\ getTruckTotalRouteTime(trips, ordersData) = expected
          /\ pc \in {"totals", "done"} => trucksWithTrips[k].totalRouteTime = expected

\* A result with a truck that ran three trips.
C10_Witness ==
  /\ pc = "done"
  /\ \E k \in DOMAIN trucksWithTrips :
       /\ Len(trucksWithTrips[k].trips) = 3
       /\ \A j \in 1..3 : trucksWithTrips[k].trips[j].loadedOrders # <<>>
       /\ trucksWithTrips[k].totalRouteTime > 60

(***************************************************************************)
(* Properties of the free-space packer.                                    *)
(***************************************************************************)
\* The Item a PackedItem was made from.
BaseItem(p) ==
  [id |-> p.id, length |-> p.length, width |-> p.width, height |-> p.height,
   weight |-> p.weight, volume |-> p.volume]

BaseItems(packed) == [i \in DOMAIN packed |-> BaseItem(packed[i])]

\* The head of sortedItems is over the weight limit: the step puts it in
\* unpackedItems and places nothing, whatever its size.
OverweightIsRejected ==
  (pc = "packing" /\ sortedItems # <<>>
     /\ totalWeight + Head(sortedItems).weight > bin.maxWeight) =>
    /\ unpackedItems' = Append(unpackedItems, Head(sortedItems))
    /\ packedItems' = packedItems
    /\ spaces' = spaces
    /\ totalWeight' = totalWeight

FitsContainer(item, b) ==
  /\ item.height <= b.height
  /\ \/ (item.length <= b.width /\ item.width <= b.depth)
     \/ (item.width <= b.width /\ item.length <= b.depth)

\* C4: the running packed weight of packItems never exceeds bin.maxWeight;
\* an item with totalWeight + item.weight > bin.maxWeight goes to
\* unpackedItems with no placement, whatever its size; with maxWeight 25 and
\* three items of weight 10 that fit the container, 2 are packed, 1 is not.
C4_WeightConstraint ==
  /\ [](/\ totalWeight <= bin.maxWeight
        /\ totalWeight = SumSeq([i \in DOMAIN packedItems |-> packedItems[i].weight])
        /\ (pc = "pack_done" /\ bin.maxWeight = 25 /\ Len(items) = 3
              /\ \A i \in 1..3 : items[i].weight = 10 /\ FitsContainer(items[i], bin)) =>
             (Len(packedItems) = 2 /\ Len(unpackedItems) = 1
                /\ packResult.totalWeight <= 25))
  /\ [][OverweightIsRejected]_vars

\* Three items of weight 10 in the 200 x 400 x 200 container of maxWeight 25:
\* the third is unpacked although free space is left for it.
C4_Witness ==
  /\ pc = "pack_done"
  /\ bin.maxWeight = 25
  /\ Len(items) = 3
  /\ \A i \in 1..3 : items[i].weight = 10 /\ FitsContainer(items[i], bin)
  /\ Len(packedItems) = 2
  /\ Len(unpackedItems) = 1
  /\ \E r \in {1, 2} : \E k \in DOMAIN spaces :
       FitsSpace(Rotations(unpackedItems[1])[r], unpackedItems[1], spaces[k])

\* C5: packItems partitions its input: as multisets packedItems +
\* unpackedItems = items (and while it runs, + the items not yet processed);
\* success is true exactly when unpackedItems is empty; totalWeight and
\* usedVolume are the sums over packedItems; for no items both lists are
\* empty and totalWeight is 0.
C5_Partition ==
  /\ pc \in {"packing", "pack_done"} =>
       \A it \in ItemCatalogue :
         TimesIn(BaseItems(packedItems), it) + TimesIn(unpackedItems, it)
           + TimesIn(sortedItems, it) = TimesIn(items, it)
  /\ pc = "pack_done" =>
       /\ \A it \in ItemCatalogue :
            TimesIn(BaseItems(packedItems), it) + TimesIn(unpackedItems, it)
              = TimesIn(items, it)
       /\ Len(packedItems) + Len(unpackedItems) = Len(items)
       /\ packResult.success <=> (unpackedItems = <<>>)
       /\ packResult.totalWeight
            = SumSeq([i \in DOMAIN packedItems |-> packedItems[i].weight])
       /\ packResult.usedVolume
            = SumSeq([i \in DOMAIN packedItems |-> packedItems[i].volume])
       /\ items = <<>> =>
            (packedItems = <<>> /\ unpackedItems = <<>> /\ packResult.totalWeight = 0)

\* A result with packed items and with an item no free box could take.
C5_Witness ==
  /\ pc = "pack_done"
  /\ packedItems # <<>>
  /\ ~packResult.success
  /\ \E i \in DOMAIN unpackedItems :
       packResult.totalWeight + unpackedItems[i].weight <= bin.maxWeight

InsideContainer(p, b) ==
  /\ p.x >= 0 /\ p.y >= 0 /\ p.z >= 0
  /\ p.x + p.rotatedLength <= b.width
  /\ p.y + p.rotatedWidth <= b.depth
  /\ p.z + p.height <= b.height

\* C6: every item packItems packed lies inside the container; an item that
\* fits the container in neither rotation is unpacked in the result, never
\* packed.
C6_InsideContainer ==
  /\ \A i \in DOMAIN packedItems : InsideContainer(packedItems[i], bin)
  /\ pc = "pack_done" =>
       \A it \in Range(items) :
         ~FitsContainer(it, bin) =>
           /\ TimesIn(unpackedItems, it) = TimesIn(items, it)
           /\ TimesIn(BaseItems(packedItems), it) = 0

\* The item of length 150 alone in the 100 x 100 x 100 container: unpacked,
\* packed count 0.
C6_Witness ==
  /\ pc = "pack_done"
  /\ bin = Bin(100, 100, 100, 1000)
  /\ Len(items) = 1
  /\ items[1].length = 150
  /\ packedItems = <<>>
  /\ unpackedItems = items

\* cog = value, for a fraction cog.
FracIs(f, value) == f.num = value * f.den

PackedWeight == SumSeq([i \in DOMAIN packedItems |-> packedItems[i].weight])

\* Two items of 100 x 100 x 50 on the floor, at x = 0 and x = 100.
TwoSideBySide ==
  /\ Len(packedItems) = 2
  /\ \A i \in 1..2 : /\ packedItems[i].rotatedLength = 100
                     /\ packedItems[i].rotatedWidth = 100
                     /\ packedItems[i].height = 50
                     /\ packedItems[i].y = 0 /\ packedItems[i].z = 0
  /\ packedItems[1].x = 0
  /\ packedItems[2].x = 100

\* C7: the centre of gravity is the weight-weighted mean of the centres of
\* the packed items: cx * SUM(weight) = SUM((x + rotatedLength / 2) * weight),
\* likewise cy with rotatedWidth and cz with height; (0, 0, 0) for no items;
\* one item of 100 x 100 x 50 at the origin gives (50, 50, 25), two such of
\* equal weight at x = 0 and x = 100 give cx = 100, a heavier one at x = 0
\* gives cx < 100.
C7_CenterOfGravity ==
  pc = "pack_done" =>
    LET cog == packResult.centerOfGravity
    IN /\ cog.x.den > 0 /\ cog.y.den > 0 /\ cog.z.den > 0
       /\ 2 * cog.x.num * PackedWeight
            = cog.x.den * SumSeq([i \in DOMAIN packedItems |->
                (2 * packedItems[i].x + packedItems[i].rotatedLength)
                  * packedItems[i].weight])
       /\ 2 * cog.y.num * PackedWeight
            = cog.y.den * SumSeq([i \in DOMAIN packedItems |->
                (2 * packedItems[i].y + packedItems[i].rotatedWidth)
                  * packedItems[i].weight])
       /\ 2 * cog.z.num * PackedWeight
            = cog.z.den * SumSeq([i \in DOMAIN packedItems |->
                (2 * packedItems[i].z + packedItems[i].height)
                  * packedItems[i].weight])
       /\ packedItems = <<>> =>
            (FracIs(cog.x, 0) /\ FracIs(cog.y, 0) /\ FracIs(cog.z, 0))
       /\ (Len(packedItems) = 1 /\ packedItems[1].rotatedLength = 100
             /\ packedItems[1].rotatedWidth = 100 /\ packedItems[1].height = 50) =>
            (FracIs(cog.x, 50) /\ FracIs(cog.y, 50) /\ FracIs(cog.z, 25))
       /\ (TwoSideBySide /\ packedItems[1].weight = packedItems[2].weight) =>
            FracIs(cog.x, 100)
       /\ (TwoSideBySide /\ packedItems[1].weight > packedItems[2].weight) =>
            cog.x.num < 100 * cog.x.den

\* The result for a heavier and a lighter item side by side.
C7_Witness ==
  /\ pc = "pack_done"
  /\ TwoSideBySide
  /\ packedItems[1].weight > packedItems[2].weight
  /\ packResult.centerOfGravity.x.num < 100 * packResult.centerOfGravity.x.den

\* 0.2 * size <= f <= 0.8 * size, for a fraction f.
WithinMiddle(f, size) ==
  2 * size * f.den <= 10 * f.num /\ 10 * f.num <= 8 * size * f.den

PointCog(x, y, z) == [x |-> Frac(x, 1), y |-> Frac(y, 1), z |-> Frac(z, 1)]

\* C8: isBalanced is true if and only if |cx - width / 2| <= 0.3 * width and
\* |cy - depth / 2| <= 0.3 * depth, whatever cz is; in a 200 x 400 container
\* the centroids (100, 200) and (120, 220) are balanced, (10, 10) is not.
C8_Balanced ==
  /\ pc = "pack_done" =>
       LET cog == packResult.centerOfGravity
       IN /\ packResult.isBalanced <=>
               (WithinMiddle(cog.x, bin.width) /\ WithinMiddle(cog.y, bin.depth))
          /\ \A cz \in {0, bin.height} :
               IsBalanced([cog EXCEPT !.z = Frac(cz, 1)], bin) = packResult.isBalanced
  /\ \A cz \in {0, 100, 200} :
       /\ IsBalanced(PointCog(100, 200, cz), Bin(200, 400, 200, 1000))
       /\ IsBalanced(PointCog(120, 220, cz), Bin(200, 400, 200, 1000))
       /\ ~IsBalanced(PointCog(10, 10, cz), Bin(200, 400, 200, 1000))

\* A load whose centre of gravity is within the tolerance across the truck
\* but too far back along it: not balanced.
C8_Witness ==
  /\ pc = "pack_done"
  /\ packedItems # <<>>
  /\ WithinMiddle(packResult.centerOfGravity.x, bin.width)
  /\ ~WithinMiddle(packResult.centerOfGravity.y, bin.depth)
  /\ ~packResult.isBalanced

(***************************************************************************)
(* The elapsed time of the plan and its bottleneck truck.                  *)
(***************************************************************************)
\* C11: in the result of runOptimizationV3 the total elapsed time, in the
\* summary and in parallelDeployment, is the largest totalRouteTime of any
\* truck, and the truck reported as the bottleneck has exactly that time.
C11_ElapsedIsMaxTruckTime ==
  pc \in {"totals", "done"} =>
    LET times == {trucksWithTrips[k].totalRouteTime : k \in DOMAIN trucksWithTrips}
    IN /\ summary.totalElapsedTimeMin \in times
       /\ \A t \in times : t <= summary.totalElapsedTimeMin
       /\ summary.parallelTotalElapsedTimeMin = summary.totalElapsedTimeMin
       /\ \E k \in DOMAIN trucksWithTrips :
            /\ trucksWithTrips[k].truck.id = summary.bottleneckTruck
            /\ trucksWithTrips[k].totalRouteTime = summary.totalElapsedTimeMin

\* Two trucks with different route times, the slower one second in the list.
C11_Witness ==
  /\ pc = "done"
  /\ Len(trucksWithTrips) = 2
  /\ trucksWithTrips[1].totalRouteTime > 0
  /\ trucksWithTrips[2].totalRouteTime > trucksWithTrips[1].totalRouteTime
  /\ summary.bottleneckTruck = trucksWithTrips[2].truck.id

(***************************************************************************)
(* Routes.                                                                 *)
(***************************************************************************)
\* The trips of the returned plan, as <<truck position, trip position>>.
PlannedTrips ==
  {p \in (DOMAIN assignments) \X (1..(MaxStops + MaxOrders + 1)) :
     p[2] \in DOMAIN assignments[p[1]].trips}

PlannedTrip(p) == assignments[p[1]].trips[p[2]]

TruckOf(p) == assignments[p[1]].truck

\* C12: the route of a trip has exactly one stop per loaded order, none
\* missing and none twice, and the stops are numbered 1..n in list order.
C12_OneStopPerOrder ==
  pc = "done" =>
    \A p \in PlannedTrips :
      LET t == PlannedTrip(p)
      IN /\ Len(t.route) = Len(t.orders)
         /\ \A o \in Range(t.orders) :
              Cardinality({n \in DOMAIN t.route : t.route[n].orderId = o}) = 1
         /\ \A n \in DOMAIN t.route :
              /\ t.route[n].orderId \in Range(t.orders)
              /\ t.route[n].sequence = n

\* A trip of three orders in two zones whose route visits them in another
\* order than they were loaded in.
C12_Witness ==
  /\ pc = "done"
  /\ \E p \in PlannedTrips :
       LET t == PlannedTrip(p)
       IN /\ Len(t.orders) = 3
          /\ Len(t.zones) = 2
          /\ [n \in DOMAIN t.route |-> t.route[n].orderId] # t.orders

\* The zones in the order the depot is nearest to them.
ZonesByDepotTime == <<"West", "Central", "South", "North", "East">>

DepotOrder(z) == CHOOSE i \in DOMAIN ZonesByDepotTime : ZonesByDepotTime[i] = z

\* C13: in a route the stops of a zone nearer to the depot come before the
\* stops of a zone farther from it (West 15 < Central 30 < South 35 <
\* North 40 < East 45), the stops of one zone are contiguous, and within a
\* zone the stops are in ascending order of their sector strings.
C13_StopOrdering ==
  pc = "done" =>
    \A p \in PlannedTrips :
      LET r == PlannedTrip(p).route
      IN \A a, b \in DOMAIN r :
           /\ ZONE_TRAVEL_TIMES[r[a].zone] < ZONE_TRAVEL_TIMES[r[b].zone]
                => r[a].sequence < r[b].sequence
           /\ DepotOrder(r[a].zone) < DepotOrder(r[b].zone)
                <=> ZONE_TRAVEL_TIMES[r[a].zone] < ZONE_TRAVEL_TIMES[r[b].zone]
           /\ (r[a].zone = r[b].zone /\ a < b)
                => /\ \A c \in a..b : r[c].zone = r[a].zone
                   /\ SectorRank[r[a].sector] <= SectorRank[r[b].sector]

\* A trip of three orders: two of one zone loaded in descending sector
\* order, and an order of a farther zone loaded before one of a nearer zone.
C13_Witness ==
  /\ pc = "done"
  /\ \E p \in PlannedTrips :
       LET t == PlannedTrip(p)
           sectorOf(i) == SectorRank[ordersData[t.orders[i]].sector]
           zoneOf(i) == ordersData[t.orders[i]].zone
       IN /\ Len(t.orders) = 3
          /\ \E i, j \in 1..3 :
               i < j /\ zoneOf(i) = zoneOf(j) /\ sectorOf(i) > sectorOf(j)
          /\ \E i, j \in 1..3 :
               i < j /\ ZONE_TRAVEL_TIMES[zoneOf(i)] > ZONE_TRAVEL_TIMES[zoneOf(j)]

(***************************************************************************)
(* Service time per stop.                                                  *)
(***************************************************************************)
\* The driving time of a route: depot to the first stop, every change of
\* zone between consecutive stops, and the last stop back to the depot.
RouteTravelTime(route) ==
  DepotTime(route[1].zone)
  + SumSeq([n \in 1..(Len(route) - 1) |->
             IF route[n].zone = route[n + 1].zone THEN 0
             ELSE getInterZoneTime(route[n].zone, route[n + 1].zone)])
  + DepotTime(route[Len(route)].zone)

\* The time a trip spends at its stops, as the returned plan shows it.
ServiceTimeOf(t) == t.deliveryTimeMin - RouteTravelTime(t.route)

\* C14 as the specification states it: a stop takes 15 minutes when the
\* order weighs more than 50 kg or requires two helpers, 10 otherwise.
C14_ServiceTimeWithHelpers ==
  pc = "done" =>
    \A p \in PlannedTrips :
      LET t == PlannedTrip(p)
      IN t.orders # <<>> =>
           ServiceTimeOf(t) =
             SumSeq([i \in DOMAIN t.orders |->
                      IF \/ ordersData[t.orders[i]].totalWeight > 50
                         \/ ordersData[t.orders[i]].helpersRequired = "two"
                      THEN 15 ELSE 10])

\* C14: a stop takes 15 minutes when the total weight of the order exceeds
\* 50 kg and 10 minutes otherwise, whatever its helper requirement is.
C14_ServiceTimeByWeight ==
  pc = "done" =>
    \A p \in PlannedTrips :
      LET t == PlannedTrip(p)
      IN /\ t.orders # <<>> =>
              ServiceTimeOf(t) =
                SumSeq([i \in DOMAIN t.orders |->
                         IF ordersData[t.orders[i]].totalWeight > 50
                         THEN 15 ELSE 10])
         /\ \A n \in DOMAIN t.route :
              t.route[n].needsTwoPeople
                <=> ordersData[t.route[n].orderId].totalWeight > 50

\* A trip of two orders, a light one that requires two helpers and one of
\* more than 50 kg: 10 and 15 minutes at the stops.
C14_Witness ==
  /\ pc = "done"
  /\ \E p \in PlannedTrips :
       LET t == PlannedTrip(p)
       IN /\ Len(t.orders) = 2
          /\ \E i, j \in 1..2 :
               /\ ordersData[t.orders[i]].helpersRequired = "two"
               /\ ordersData[t.orders[i]].totalWeight <= 50
               /\ ordersData[t.orders[j]].totalWeight > 50
          /\ ServiceTimeOf(t) = 25

(***************************************************************************)
(* Load plans.                                                             *)
(***************************************************************************)
\* The stop number of the order a placed unit belongs to.
StopOf(t, u) == SequenceOf(t.route, u.orderId)

\* C15: in the load plan of a trip a unit delivered earlier is never
\* behind a unit delivered later: for placed units a and b with
\* sequence(a) < sequence(b), a.y >= b.y (y = 0 is the back of the truck).
C15_LastInFirstOut ==
  pc = "done" =>
    \A p \in PlannedTrips :
      LET t == PlannedTrip(p)
      IN \A i, j \in DOMAIN t.loadPlan :
           StopOf(t, t.loadPlan[i]) < StopOf(t, t.loadPlan[j])
             => t.loadPlan[i].y3 >= t.loadPlan[j].y3

\* The units of a trip with the section each was assigned to: the placed
\* ones and the ones the packer passed over.
SectionUnits(t) ==
  [i \in DOMAIN t.loadPlan |->
    [sequence |-> StopOf(t, t.loadPlan[i]), placement |-> t.loadPlan[i].placement]]
  \o [i \in DOMAIN t.skipped |->
       [sequence |-> t.skipped[i].item.sequence, placement |-> t.skipped[i].placement]]

SectionSize(t, name) ==
  Cardinality({i \in DOMAIN SectionUnits(t) : SectionUnits(t)[i].placement = name})

SectionNames == {"back", "middle", "front"}

\* C16: the units of a trip are split into three groups whose sizes differ
\* by at most one; for a trip with at least three units the front section
\* is not empty and holds a unit of the lowest stop sequence, and the back
\* section holds a unit of the highest.
C16_EqualThirds ==
  pc = "done" =>
    \A p \in PlannedTrips :
      LET t == PlannedTrip(p)
          us == SectionUnits(t)
      IN /\ \A a, b \in SectionNames : SectionSize(t, a) - SectionSize(t, b) <= 1
         /\ Len(us) >= 3 =>
              /\ \E i \in DOMAIN us :
                   /\ us[i].placement = "front"
                   /\ \A j \in DOMAIN us : us[i].sequence <= us[j].sequence
              /\ \E i \in DOMAIN us :
                   /\ us[i].placement = "back"
                   /\ \A j \in DOMAIN us : us[i].sequence >= us[j].sequence

SectionRank(name) == CASE name = "back" -> 1 [] name = "middle" -> 2 [] name = "front" -> 3

BandOf(u, truck) ==
  CASE u.placement = "back" -> [startY3 |-> 0, endY3 |-> truck.depth]
    [] u.placement = "middle" -> [startY3 |-> truck.depth, endY3 |-> 2 * truck.depth]
    [] u.placement = "front" -> [startY3 |-> 2 * truck.depth, endY3 |-> 3 * truck.depth]

\* C18: every placed unit lies inside the Y-band of its section and inside
\* the truck: startY <= y, y + rotatedWidth <= endY, 0 <= x,
\* x + rotatedLength <= truck.width, 0 <= z, z + height <= truck.height.
C18_InsideSection ==
  pc = "done" =>
    \A p \in PlannedTrips :
      LET t == PlannedTrip(p)
          truck == TruckOf(p)
      IN \A i \in DOMAIN t.loadPlan :
           LET u == t.loadPlan[i]
               band == BandOf(u, truck)
           IN /\ band.startY3 <= u.y3
              /\ u.y3 + 3 * u.rotatedWidth <= band.endY3
              /\ 0 <= u.x
              /\ u.x + u.rotatedLength <= truck.width
              /\ 0 <= u.z
              /\ u.z + u.height <= truck.height

\* How many units of an order item the load plan places, and how many the
\* packer passed over.
PlacedCount(t, itemId) ==
  Cardinality({i \in DOMAIN t.loadPlan : t.loadPlan[i].orderItemId = itemId})

SkippedCount(t, itemId) ==
  Cardinality({i \in DOMAIN t.skipped : t.skipped[i].item.id = itemId})

\* C19: the packer leaves a unit out exactly when, after the row and layer
\* advance for that unit, currentZ + height > truck.height.  The unit then
\* appears in no output: not in the load plan and not in unassignedOrders,
\* while its order stays in the order list and the route of the trip; and
\* the units after it are still packed.
C19_SilentDrop ==
  pc = "done" =>
    \A p \in PlannedTrips :
      LET t == PlannedTrip(p)
          truck == TruckOf(p)
      IN /\ \A i \in DOMAIN t.skipped :
              LET s == t.skipped[i]
              IN /\ s.z + s.item.height > truck.height
                 /\ s.item.orderId \in Range(t.orders)
                 /\ \E n \in DOMAIN t.route : t.route[n].orderId = s.item.orderId
                 /\ s.item.orderId \notin Range(unassignedOrders)
         /\ \A i \in DOMAIN t.loadPlan :
              t.loadPlan[i].z + t.loadPlan[i].height <= truck.height
         /\ \A j \in DOMAIN t.orders :
              LET its == ordersData[t.orders[j]].items
              IN \A k \in DOMAIN its :
                   PlacedCount(t, its[k].id) + SkippedCount(t, its[k].id)
                     = its[k].quantity
         /\ Len(t.loadPlan) + Len(t.skipped)
              = SumSeq([j \in DOMAIN t.orders |->
                         SumSeq([k \in DOMAIN ordersData[t.orders[j]].items |->
                                  ordersData[t.orders[j]].items[k].quantity])])

\* A section whose heaviest unit is too high for the truck and is left out,
\* and whose next unit is placed.
C19_Witness ==
  /\ pc = "done"
  /\ \E p \in PlannedTrips :
       LET t == PlannedTrip(p)
       IN \E i \in DOMAIN t.skipped : \E j \in DOMAIN t.loadPlan :
            /\ t.skipped[i].placement = t.loadPlan[j].placement
            /\ t.skipped[i].item.weight > t.loadPlan[j].weight
            /\ PlacedCount(t, t.skipped[i].item.id) = 0
            /\ t.skipped[i].item.orderId \in Range(t.orders)

OpenRunOn(t) ==
  \E id \in DOMAIN deliveryRuns :
    /\ deliveryRuns[id].truckId = t
    /\ deliveryRuns[id].status \in {"planned", "in_progress"}

\* C21: a truck that still has a delivery run in status planned or
\* in_progress is never available, whatever sequence of autoOptimize,
\* createFromAutoOptimize, createFromOptimization, start, complete and
\* deliverCurrentStop calls has been made.
C21_NoAvailableTruckWithOpenRun ==
  \A t \in DOMAIN truckStatus : OpenRunOn(t) => truckStatus[t] # "available"

\* The multi-trip case of C21 alone: the runs all come from
\* createFromAutoOptimize (no truck is planned twice by it), and one of them
\* has completed.
C21_CompletedRunKeepsTruckBusy ==
  \A t \in DOMAIN truckStatus :
    (/\ OpenRunOn(t)
     /\ \E id \in DOMAIN deliveryRuns :
          deliveryRuns[id].truckId = t /\ deliveryRuns[id].status = "completed")
    => truckStatus[t] # "available"

\* The free boxes of spaces that take the item in the given rotation.
FittingSpaces(rot, item) ==
  {i \in DOMAIN spaces : FitsSpace(rot, item, spaces[i])}

\* (z, y, x) of a is lexicographically at most (z, y, x) of b.
CornerLeq(a, b) ==
  \/ a.z < b.z
  \/ (a.z = b.z /\ a.y < b.y)
  \/ (a.z = b.z /\ a.y = b.y /\ a.x <= b.x)

\* C22: packItems takes the items in descending volume; an item is placed
\* at 0 degrees when some free box takes it at 0 degrees and at 90 degrees
\* only otherwise; in the rotation used it is placed at the corner of the
\* fitting free box that is minimal for the key (z, y, x); the first item
\* packed is at (0, 0, 0).
C22_PlacementChoice ==
  [][ (pc = "packing" /\ Len(packedItems') = Len(packedItems) + 1) =>
      LET item == Head(sortedItems)
          p == packedItems'[Len(packedItems')]
          rot0 == Rotations(item)[1]
          rot90 == Rotations(item)[2]
          used == IF p.rotation = 0 THEN rot0 ELSE rot90
      IN /\ \A k \in DOMAIN sortedItems : item.volume >= sortedItems[k].volume
         /\ p.rotation \in {0, 90}
         /\ p.rotation = 0 <=> FittingSpaces(rot0, item) # {}
         /\ p.rotatedLength = used.length /\ p.rotatedWidth = used.width
         /\ \E i \in FittingSpaces(used, item) :
              /\ p.x = spaces[i].x /\ p.y = spaces[i].y /\ p.z = spaces[i].z
              /\ \A j \in FittingSpaces(used, item) : CornerLeq(spaces[i], spaces[j])
         /\ packedItems = <<>> => (p.x = 0 /\ p.y = 0 /\ p.z = 0) ]_vars

\* An item was turned by 90 degrees, and another was placed with several
\* free boxes to choose from, on the floor beside the first.
C22_Witness ==
  /\ pc = "packing"
  /\ \E i \in DOMAIN packedItems : packedItems[i].rotation = 90
  /\ \E i \in DOMAIN packedItems :
       packedItems[i].z = 0 /\ (packedItems[i].x > 0 \/ packedItems[i].y > 0)
  /\ Len(spaces) >= 3

\* A box as origin and extent on the three axes.
Box(x, y, z, w, d, h) == [x |-> x, y |-> y, z |-> z, w |-> w, d |-> d, h |-> h]

BoxOfPacked(p) == Box(p.x, p.y, p.z, p.rotatedLength, p.rotatedWidth, p.height)

\* Two boxes share interior points.
BoxesOverlap(a, b) ==
  /\ a.x < b.x + b.w /\ b.x < a.x + a.w
  /\ a.y < b.y + b.d /\ b.y < a.y + a.d
  /\ a.z < b.z + b.h /\ b.z < a.z + a.h

BoxInside(a, b) ==
  /\ a.x >= 0 /\ a.y >= 0 /\ a.z >= 0
  /\ a.x + a.w <= b.width /\ a.y + a.d <= b.depth /\ a.z + a.h <= b.height

\* C28: no two items placed by packItems overlap; at every step of the
\* packing the free boxes are pairwise disjoint, lie inside the container
\* and are disjoint from every placed item.
C28_NoOverlap ==
  pc \in {"packing", "pack_done"} =>
    /\ \A i, j \in DOMAIN packedItems :
         i < j => ~BoxesOverlap(BoxOfPacked(packedItems[i]), BoxOfPacked(packedItems[j]))
    /\ \A i, j \in DOMAIN spaces : i < j => ~BoxesOverlap(spaces[i], spaces[j])
    /\ \A i \in DOMAIN spaces : BoxInside(spaces[i], bin)
    /\ \A i \in DOMAIN spaces : \A j \in DOMAIN packedItems :
         ~BoxesOverlap(spaces[i], BoxOfPacked(packedItems[j]))

\* Three items are placed, one of them on top of another, and free boxes
\* remain.
C28_Witness ==
  /\ Len(packedItems) = 3
  /\ \E i \in DOMAIN packedItems : packedItems[i].z > 0
  /\ Len(spaces) >= 4

\* C23: runOptimizationV3 opens a new trip only for an order that is then
\* placed in it: every trip with tripId > 1 holds at least one order.
C23_NoEmptyAdditionalTrip ==
  \A k \in DOMAIN trucksWithTrips :
    \A j \in DOMAIN trucksWithTrips[k].trips :
      trucksWithTrips[k].trips[j].tripId > 1 =>
        trucksWithTrips[k].trips[j].loadedOrders # <<>>

\* C27: within one section of a load plan a unit placed lower is at least
\* as heavy as a unit placed higher: a.z < b.z implies a.weight >= b.weight.
C27_HeavyItemsLow ==
  pc = "done" =>
    \A p \in PlannedTrips :
      LET lp == PlannedTrip(p).loadPlan
      IN \A i, j \in DOMAIN lp :
           (lp[i].placement = lp[j].placement /\ lp[i].z < lp[j].z)
             => lp[i].weight >= lp[j].weight

\* A section with a heavier unit on the floor and a lighter unit in a
\* higher layer.
C27_Witness ==
  /\ pc = "done"
  /\ \E p \in PlannedTrips :
       LET lp == PlannedTrip(p).loadPlan
       IN \E i, j \in DOMAIN lp :
            /\ lp[i].placement = lp[j].placement
            /\ lp[i].z = 0 /\ lp[j].z > 0
            /\ lp[i].weight > lp[j].weight

\* The box a placed unit of a load plan occupies, depth in thirds of a cm.
BoxOfUnit(u) == Box(u.x, u.y3, u.z, u.rotatedLength, 3 * u.rotatedWidth, u.height)

\* C29: no two units of a load plan overlap, within a section or across
\* sections, in any trip (every trip holds only orders that passed
\* canFitInTrip).
C29_LoadPlanNoOverlap ==
  pc = "done" =>
    \A p \in PlannedTrips :
      LET lp == PlannedTrip(p).loadPlan
      IN \A i, j \in DOMAIN lp :
           i < j => ~BoxesOverlap(BoxOfUnit(lp[i]), BoxOfUnit(lp[j]))

\* C30: the volume used, summed over all trips of all trucks, is at most
\* the summed volume of the trucks, so summary.fleetVolumeUtilization is at
\* most 100 (1000 tenths), also when trucks make several trips.
C30_UtilizationAtMost100 ==
  pc \in {"totals", "done"} =>
    /\ SumSeq([k \in DOMAIN trucksWithTrips |-> trucksWithTrips[k].totalVolumeUsed])
         <= SumSeq([i \in DOMAIN trucksData |-> trucksData[i].volume])
    /\ summary.fleetVolumeUtilization10 <= 1000

\* The item alone fits inside the empty truck as stored (length along the
\* width of the truck) or turned by 90 degrees on the floor.
FitsAlone(item, truck) ==
  /\ DimOr30(item.height) <= truck.height
  /\ \/ (DimOr30(item.length) <= truck.width /\ DimOr30(item.width) <= truck.depth)
     \/ (DimOr30(item.width) <= truck.width /\ DimOr30(item.length) <= truck.depth)

\* C24: the dimension test of canFitInTrip is a necessary condition: an
\* order whose items each fit inside the empty truck, as stored or turned
\* by 90 degrees, and whose weight and volume the empty truck takes, passes
\* canFitInTrip for the empty trip; alone in the input it is not left
\* unassigned.
C24_DimensionTestNecessary ==
  pc = "done" =>
    \A i \in DOMAIN ordersData : \A k \in DOMAIN trucksData :
      LET order == ordersData[i]
          truck == trucksData[k]
      IN (/\ \A n \in DOMAIN order.items : FitsAlone(order.items[n], truck)
          /\ order.totalVolume <= truck.volume
          /\ order.totalWeight <= truck.maxWeight)
         => /\ canFitInTrip(EmptyTrip(1, truck), order)
            /\ (Len(ordersData) = 1 => unassignedOrders = <<>>)

\* The helpers the returned assignments ask for.
HelpersAssigned ==
  SumSeq([a \in DOMAIN truckAssignments |-> truckAssignments[a].helpersNeeded])

\* C25: in assignOrdersToTrucks the helpersNeeded of the assignments sum to
\* at most availableHelpers, and remainingHelpers is never negative.
C25_HelperBudget ==
  pc \in {"assigning", "assigned"} =>
    /\ HelpersAssigned <= availableHelpers
    /\ remainingHelpers >= 0

\* The second half of C25 alone.
C25_RemainingHelpersNotNegative ==
  pc \in {"assigning", "assigned"} => remainingHelpers >= 0

\* C26: in the assignments of assignOrdersToTrucks every truck appears at
\* most once and every order at most once, totalWeight <= truck.maxWeight,
\* totalVolume <= truck.volume, and the totals are the sums over the orders
\* of the assignment.
C26_AssignmentInvariants ==
  pc \in {"assigning", "assigned"} =>
    /\ \A a, b \in DOMAIN truckAssignments :
         a # b => truckAssignments[a].truck.id # truckAssignments[b].truck.id
    /\ \A a, b \in DOMAIN truckAssignments :
         \A i \in DOMAIN truckAssignments[a].orders :
           \A j \in DOMAIN truckAssignments[b].orders :
             truckAssignments[a].orders[i].id = truckAssignments[b].orders[j].id
               => (a = b /\ i = j)
    /\ \A a \in DOMAIN truckAssignments :
         LET asg == truckAssignments[a]
         IN /\ asg.totalWeight <= asg.truck.maxWeight
            /\ asg.totalVolume <= asg.truck.volume
            /\ asg.totalWeight =
                 SumSeq([i \in DOMAIN asg.orders |-> asg.orders[i].totalWeight])
            /\ asg.totalVolume =
                 SumSeq([i \in DOMAIN asg.orders |-> asg.orders[i].totalVolume])
            /\ asg.truck \in Range(truckData)
            /\ \A i \in DOMAIN asg.orders : asg.orders[i] \in Range(ordersWithItems)

\* Two trucks are assigned and one of them carries two orders.
C26_Witness ==
  /\ pc = "assigned"
  /\ Len(truckAssignments) = 2
  /\ \E a \in DOMAIN truckAssignments : Len(truckAssignments[a].orders) = 2

====
